---- MODULE Spec2Model ----
(***************************************************************************)
(* Verification model of the QR-code utility: the content classifier       *)
(* (parseQrContent and its detectors) and the URL risk heuristics          *)
(* (checkUrlSafety), each with its module-level memo cache.                *)
(*                                                                         *)
(* Strings are TLA+ strings over ASCII.  A JavaScript value handed to an   *)
(* entry point is a record [t |-> typeof, v |-> string value].             *)
(***************************************************************************)
EXTENDS Integers, Sequences, FiniteSets, TLC

(***************************************************************************)
(* String primitives (String.prototype methods used by the sources).       *)
(***************************************************************************)
Char(s, i) == SubSeq(s, i, i)

Digits == {"0", "1", "2", "3", "4", "5", "6", "7", "8", "9"}

LowerAlpha == {"a", "b", "c", "d", "e", "f", "g", "h", "i", "j", "k", "l", "m",
               "n", "o", "p", "q", "r", "s", "t", "u", "v", "w", "x", "y", "z"}

UpperAlpha == {"A", "B", "C", "D", "E", "F", "G", "H", "I", "J", "K", "L", "M",
               "N", "O", "P", "Q", "R", "S", "T", "U", "V", "W", "X", "Y", "Z"}

HexDigits == Digits \cup {"a", "b", "c", "d", "e", "f", "A", "B", "C", "D", "E", "F"}

\* \s of a JavaScript regular expression, and the characters trim() removes
Whitespace == {" ", "\t", "\n", "\r", "\f"}

\* characters the . of a regular expression does not match
LineTerminators == {"\n", "\r"}

UpperString == "ABCDEFGHIJKLMNOPQRSTUVWXYZ"

LowerString == "abcdefghijklmnopqrstuvwxyz"

Min(S) == CHOOSE x \in S : \A y \in S : x <= y

Max(S) == CHOOSE x \in S : \A y \in S : x >= y

ToLowerChar(c) ==
  IF c \in UpperAlpha
  THEN Char(LowerString, CHOOSE i \in 1..26 : Char(UpperString, i) = c)
  ELSE c

RECURSIVE ToLowerCase(_)
ToLowerCase(s) ==
  IF Len(s) = 0 THEN "" ELSE ToLowerChar(Char(s, 1)) \o ToLowerCase(SubSeq(s, 2, Len(s)))

Substring(s, from) == SubSeq(s, from + 1, Len(s))

AllIn(s, class) == \A i \in 1..Len(s) : Char(s, i) \in class

NoneIn(s, class) == \A i \in 1..Len(s) : Char(s, i) \notin class

\* first position >= from at which sub occurs in s, 0 when it does not occur
IndexOf(s, sub, from) ==
  LET I == {i \in from..(Len(s) - Len(sub) + 1) : SubSeq(s, i, i + Len(sub) - 1) = sub}
  IN  IF I = {} THEN 0 ELSE Min(I)

LastIndexOf(s, sub) ==
  LET I == {i \in 1..(Len(s) - Len(sub) + 1) : SubSeq(s, i, i + Len(sub) - 1) = sub}
  IN  IF I = {} THEN 0 ELSE Max(I)

\* first position whose character is in class, 0 when there is none
IndexOfAny(s, class) ==
  LET I == {i \in 1..Len(s) : Char(s, i) \in class}
  IN  IF I = {} THEN 0 ELSE Min(I)

Includes(s, sub) == IndexOf(s, sub, 1) # 0

StartsWith(s, p) == Len(s) >= Len(p) /\ SubSeq(s, 1, Len(p)) = p

EndsWith(s, p) == Len(s) >= Len(p) /\ SubSeq(s, Len(s) - Len(p) + 1, Len(s)) = p

\* s.split(sep) for a non-empty separator: always at least one part
RECURSIVE Split(_, _)
Split(s, sep) ==
  LET i == IndexOf(s, sep, 1)
  IN  IF i = 0 THEN <<s>>
      ELSE <<SubSeq(s, 1, i - 1)>> \o Split(SubSeq(s, i + Len(sep), Len(s)), sep)

RECURSIVE Join(_, _)
Join(parts, sep) ==
  IF Len(parts) = 0 THEN ""
  ELSE IF Len(parts) = 1 THEN parts[1]
  ELSE parts[1] \o sep \o Join(Tail(parts), sep)

Trim(s) ==
  LET I == {i \in 1..Len(s) : Char(s, i) \notin Whitespace}
  IN  IF I = {} THEN "" ELSE SubSeq(s, Min(I), Max(I))

RECURSIVE RemoveChars(_, _)
RemoveChars(s, class) ==
  IF Len(s) = 0 THEN ""
  ELSE (IF Char(s, 1) \in class THEN "" ELSE Char(s, 1)) \o RemoveChars(SubSeq(s, 2, Len(s)), class)

RECURSIVE ReplaceChar(_, _, _)
ReplaceChar(s, from, to) ==
  IF Len(s) = 0 THEN ""
  ELSE (IF Char(s, 1) = from THEN to ELSE Char(s, 1)) \o ReplaceChar(SubSeq(s, 2, Len(s)), from, to)

\* some window of k consecutive characters of s lies in class: /[class]{k,}/
HasRun(s, class, k) ==
  \E i \in 1..(Len(s) - k + 1) : AllIn(SubSeq(s, i, i + k - 1), class)

\* value of a string of decimal digits
RECURSIVE DecimalValue(_)
DecimalValue(s) ==
  IF Len(s) = 0 THEN 0
  ELSE 10 * DecimalValue(SubSeq(s, 1, Len(s) - 1))
       + (CHOOSE d \in 0..9 : Char("0123456789", d + 1) = Char(s, Len(s)))

(***************************************************************************)
(* The platform's URL parser (new URL(s), WHATWG URL Standard), as far as  *)
(* the sources observe it: success or TypeError, protocol, username,       *)
(* hostname, pathname and search.  Hostnames come back in ASCII (a         *)
(* non-ASCII host is serialized as punycode), so the model's alphabet is   *)
(* ASCII.  Within the model's inputs a host whose last label is numeric is *)
(* a dotted quad; percent-escapes do not occur.                            *)
(***************************************************************************)
SpecialSchemes == {"http", "https", "ftp", "ws", "wss"}

SchemeChars == LowerAlpha \cup UpperAlpha \cup Digits \cup {"+", "-", "."}

ForbiddenHostChars ==
  Whitespace \cup {"#", "/", ":", "<", ">", "?", "@", "[", "\\", "]", "^", "|", "%"}

UrlFailure ==
  [ok |-> FALSE, protocol |-> "", username |-> "", hostname |-> "", pathname |-> "",
   search |-> ""]

RECURSIVE StripLeading(_, _)
StripLeading(s, class) ==
  IF Len(s) > 0 /\ Char(s, 1) \in class THEN StripLeading(SubSeq(s, 2, Len(s)), class) ELSE s

IsIpv4Literal(host) ==
  LET parts == Split(host, ".")
  IN  /\ Len(parts) = 4
      /\ \A i \in 1..4 : /\ Len(parts[i]) \in 1..3
                         /\ AllIn(parts[i], Digits)
                         /\ DecimalValue(parts[i]) <= 255

EndsInNumber(host) ==
  LET parts == Split(host, ".")
      last  == parts[Len(parts)]
  IN  Len(last) > 0 /\ AllIn(last, Digits)

\* host parser: "" stands for failure
ParseHost(raw, special) ==
  IF StartsWith(raw, "[")
  THEN IF /\ EndsWith(raw, "]")
          /\ Len(raw) > 3
          /\ AllIn(SubSeq(raw, 2, Len(raw) - 1), HexDigits \cup {":"})
          /\ Includes(raw, ":")
       THEN ToLowerCase(raw)
       ELSE ""
  ELSE IF ~special
  THEN IF NoneIn(raw, ForbiddenHostChars \ {"%"}) THEN raw ELSE ""
  ELSE IF ~NoneIn(raw, ForbiddenHostChars)
  THEN ""
  ELSE IF EndsInNumber(raw) /\ ~IsIpv4Literal(raw)
  THEN ""
  ELSE ToLowerCase(raw)

\* position of the ":" that introduces the port, 0 when there is none
PortSeparator(hostport) ==
  IF StartsWith(hostport, "[")
  THEN LET close == IndexOf(hostport, "]", 1)
       IN  IF close # 0 /\ close < Len(hostport) /\ Char(hostport, close + 1) = ":"
           THEN close + 1 ELSE 0
  ELSE LastIndexOf(hostport, ":")

\* userinfo = username [":" password]
Username(userinfo) ==
  LET userEnd == IndexOf(userinfo, ":", 1)
  IN  IF userEnd = 0 THEN userinfo ELSE SubSeq(userinfo, 1, userEnd - 1)

\* hostport = host [":" port], colon being the position of its port separator
ParseHostPort(hostport, colon, username, hasUserinfo, special) ==
  LET rawHost == IF colon = 0 THEN hostport ELSE SubSeq(hostport, 1, colon - 1)
      port    == IF colon = 0 THEN "" ELSE SubSeq(hostport, colon + 1, Len(hostport))
  IN  [ok |-> /\ AllIn(port, Digits)
              /\ (special => rawHost # "")
              /\ (rawHost # "" => ParseHost(rawHost, special) # "")
              /\ (rawHost = "" => (~hasUserinfo /\ colon = 0)),
       hostname |-> ParseHost(rawHost, special),
       username |-> username]

\* authority = [userinfo "@"] hostport, at being the position of its last "@"
ParseUserinfo(authority, at, special) ==
  LET userinfo == IF at = 0 THEN "" ELSE SubSeq(authority, 1, at - 1)
      hostport == SubSeq(authority, at + 1, Len(authority))
  IN  ParseHostPort(hostport, PortSeparator(hostport), Username(userinfo), at # 0, special)

ParseAuthority(authority, special) ==
  ParseUserinfo(authority, LastIndexOf(authority, "@"), special)

\* the URL record of a URL that has an authority
UrlWithAuthority(scheme, special, auth, rawPath, search) ==
  IF ~auth.ok THEN UrlFailure
  ELSE [ok |-> TRUE, protocol |-> scheme \o ":", username |-> auth.username,
        hostname |-> auth.hostname,
        pathname |-> IF special /\ rawPath = "" THEN "/" ELSE ReplaceChar(rawPath, " ", "%20"),
        search |-> search]

\* afterSl = authority [path], pathAt being the position at which the path starts
ParseAuthorityAndPath(scheme, special, afterSl, pathAt, search) ==
  UrlWithAuthority(scheme, special,
                   ParseAuthority(IF pathAt = 0 THEN afterSl
                                  ELSE SubSeq(afterSl, 1, pathAt - 1), special),
                   IF pathAt = 0 THEN "" ELSE SubSeq(afterSl, pathAt, Len(afterSl)),
                   search)

\* hier = ["//" authority] path; a special scheme always has an authority
ParseHier(scheme, special, hier, search) ==
  IF special \/ StartsWith(hier, "//")
  THEN LET afterSl == IF special THEN StripLeading(hier, {"/", "\\"})
                      ELSE SubSeq(hier, 3, Len(hier))
       IN  ParseAuthorityAndPath(scheme, special, afterSl,
                                 IndexOfAny(afterSl, IF special THEN {"/", "\\"} ELSE {"/"}),
                                 search)
  ELSE [ok |-> TRUE, protocol |-> scheme \o ":", username |-> "", hostname |-> "",
        pathname |-> hier, search |-> search]

\* noFrag = hier ["?" query], q being the position of its first "?"
ParseQuery(scheme, noFrag, q) ==
  LET query == IF q = 0 THEN "" ELSE SubSeq(noFrag, q, Len(noFrag))
  IN  ParseHier(scheme, scheme \in SpecialSchemes,
                IF q = 0 THEN noFrag ELSE SubSeq(noFrag, 1, q - 1),
                ReplaceChar(IF query = "?" THEN "" ELSE query, " ", "%20"))

\* rest = noFrag ["#" fragment], hash being the position of its first "#"
ParseFragment(scheme, rest, hash) ==
  LET noFrag == IF hash = 0 THEN rest ELSE SubSeq(rest, 1, hash - 1)
  IN  ParseQuery(scheme, noFrag, IndexOf(noFrag, "?", 1))

\* s = scheme ":" rest, colon being the position of its first ":"
ParseScheme(s, colon) ==
  LET scheme == ToLowerCase(SubSeq(s, 1, colon - 1))
      rest   == SubSeq(s, colon + 1, Len(s))
  IN  IF colon <= 1 \/ Char(s, 1) \notin (LowerAlpha \cup UpperAlpha) \/ ~AllIn(scheme, SchemeChars)
      THEN UrlFailure
      ELSE ParseFragment(scheme, rest, IndexOf(rest, "#", 1))

ParseURL(input) ==
  LET s == RemoveChars(Trim(input), {"\t", "\n", "\r"})
  IN  ParseScheme(s, IndexOf(s, ":", 1))

(***************************************************************************)
(* URLSearchParams: the list of (name, value) pairs of a query string.     *)
(***************************************************************************)
FormDecode(s) == ReplaceChar(s, "+", " ")

SearchParams(search) ==
  LET body  == IF StartsWith(search, "?") THEN Substring(search, 1) ELSE search
      parts == SelectSeq(Split(body, "&"), LAMBDA p : p # "")
  IN  [i \in 1..Len(parts) |->
         LET eq == IndexOf(parts[i], "=", 1)
         IN  [name  |-> FormDecode(IF eq = 0 THEN parts[i] ELSE SubSeq(parts[i], 1, eq - 1)),
              value |-> FormDecode(IF eq = 0 THEN "" ELSE SubSeq(parts[i], eq + 1, Len(parts[i])))]]

\* searchParams.has(name)
ParamsHas(params, name) == \E i \in 1..Len(params) : params[i].name = name

\* searchParams.get(name): the first value, "" standing for null as well
ParamsGet(params, name) ==
  IF ParamsHas(params, name)
  THEN params[Min({i \in 1..Len(params) : params[i].name = name})].value
  ELSE ""

(***************************************************************************)
(* URL risk heuristics: the fixed lists and the single checks.             *)
(***************************************************************************)
URL_SHORTENERS ==
  {"bit.ly", "tinyurl.com", "t.co", "goo.gl", "ow.ly", "is.gd", "buff.ly",
   "adf.ly", "short.link", "tiny.cc", "lnkd.in", "rebrand.ly", "cutt.ly",
   "bl.ink", "clck.ru", "short.io", "v.gd", "x.co", "po.st", "soo.gd",
   "trib.al", "u.to", "qr.ae", "go2l.ink", "x.gd", "ift.tt", "amzn.to",
   "youtu.be", "fb.me", "ln.is", "db.tt", "qr.net", "owl.li", "adcrun.ch",
   "ity.im", "q.gs", "viid.me", "bc.vc", "twitthis.com", "u.bb", "yourls.org",
   "prettylinkpro.com", "scrnch.me", "filoops.info", "vzturl.com",
   "link.zip", "short.gy", "tiny.one", "rb.gy", "chilp.it", "short.cm"}

SUSPICIOUS_TLDS ==
  {"tk", "ml", "ga", "cf", "click", "download", "zip", "review", "country",
   "science", "work", "party", "gq", "men", "date", "racing", "loan",
   "stream", "cricket", "accountant", "faith", "win", "bid", "trade",
   "webcam", "top", "kim", "pw", "space", "website", "online", "site",
   "tech", "club", "info", "biz", "mobi", "name", "pro", "tel", "travel",
   "xxx", "adult", "porn", "sex", "casino", "bet", "poker", "game"}

SAFE_DOMAINS ==
  {"google.com", "youtube.com", "facebook.com", "twitter.com", "instagram.com",
   "linkedin.com", "github.com", "stackoverflow.com", "wikipedia.org",
   "amazon.com", "microsoft.com", "apple.com", "netflix.com", "reddit.com",
   "discord.com", "zoom.us", "dropbox.com", "spotify.com", "twitch.tv",
   "paypal.com", "ebay.com", "adobe.com", "salesforce.com", "oracle.com",
   "ibm.com", "intel.com", "nvidia.com", "amd.com", "hp.com", "dell.com",
   "mozilla.org", "cloudflare.com", "aws.amazon.com", "azure.microsoft.com",
   "cloud.google.com", "heroku.com", "vercel.com", "netlify.com", "firebase.google.com"}

REDIRECT_PARAMS ==
  {"redirect", "url", "next", "return", "returnUrl", "continue", "goto",
   "target", "destination", "forward", "link", "ref", "referer", "referrer",
   "callback", "success", "failure", "error", "exit", "out", "external",
   "redir", "redirect_uri", "return_to", "back", "from", "source", "origin"}

SUSPICIOUS_KEYWORDS ==
  {"phishing", "scam", "fraud", "fake", "malware", "virus", "trojan",
   "ransomware", "spam", "hack", "crack", "warez", "keygen", "serial",
   "patch", "loader", "activator", "bypass", "exploit", "payload",
   "backdoor", "rootkit", "botnet", "ddos", "attack", "breach"}

isUrlShortener(hostname) ==
  \E shortener \in URL_SHORTENERS :
    hostname = shortener \/ EndsWith(hostname, "." \o shortener)

\* /^(\d{1,3}\.){3}\d{1,3}$/
MatchesIpv4Pattern(hostname) ==
  LET parts == Split(hostname, ".")
  IN  Len(parts) = 4 /\ \A i \in 1..4 : Len(parts[i]) \in 1..3 /\ AllIn(parts[i], Digits)

\* /^([0-9a-f]{0,4}:){2,7}[0-9a-f]{0,4}$/i
MatchesIpv6Pattern(hostname) ==
  LET parts == Split(hostname, ":")
  IN  Len(parts) \in 3..8 /\ \A i \in 1..Len(parts) : Len(parts[i]) \in 0..4 /\ AllIn(parts[i], HexDigits)

\* hostname.replace(/^\[|\]$/g, '')
StripBrackets(hostname) ==
  LET a == IF StartsWith(hostname, "[") THEN Substring(hostname, 1) ELSE hostname
  IN  IF EndsWith(a, "]") THEN SubSeq(a, 1, Len(a) - 1) ELSE a

isIpAddress(hostname) ==
  MatchesIpv4Pattern(hostname) \/ MatchesIpv6Pattern(StripBrackets(hostname))

hasSuspiciousTld(hostname) ==
  LET parts == Split(hostname, ".")
      tld   == parts[Len(parts)]
  IN  ToLowerCase(tld) \in SUSPICIOUS_TLDS

hasRedirectParameters(searchParams) ==
  \E param \in REDIRECT_PARAMS : ParamsHas(searchParams, param)

hasExcessiveSubdomains(hostname) == Len(Split(hostname, ".")) > 4

isSafeDomain(hostname) ==
  LET lowerHostname == ToLowerCase(hostname)
  IN  \E safeDomain \in SAFE_DOMAINS :
        lowerHostname = safeDomain \/ EndsWith(lowerHostname, "." \o safeDomain)

hasSuspiciousKeywords(url) ==
  LET lowerUrl == ToLowerCase(url)
  IN  \E keyword \in SUSPICIOUS_KEYWORDS : Includes(lowerUrl, keyword)

\* /[0-9]{1,3}-[0-9]{1,3}-[0-9]{1,3}-[0-9]{1,3}/
HasDashedQuad(url) ==
  \E i \in 1..Len(url) : \E j \in (i + 6)..Len(url) :
    LET parts == Split(SubSeq(url, i, j), "-")
    IN  j - i <= 14 /\ Len(parts) = 4
        /\ \A k \in 1..4 : Len(parts[k]) \in 1..3 /\ AllIn(parts[k], Digits)

\* /(.)\1{4,}/
HasRepeatedChar(url) ==
  \E i \in 1..(Len(url) - 4) :
    /\ Char(url, i) \notin LineTerminators
    /\ \A k \in 1..4 : Char(url, i + k) = Char(url, i)

\* /[a-z]-[a-z]-[a-z]/
HasDashPattern(url) ==
  \E i \in 1..(Len(url) - 4) :
    /\ Char(url, i) \in LowerAlpha /\ Char(url, i + 1) = "-"
    /\ Char(url, i + 2) \in LowerAlpha /\ Char(url, i + 3) = "-"
    /\ Char(url, i + 4) \in LowerAlpha

\* SUSPICIOUS_PATTERNS.some(pattern => pattern.test(url)); no pattern is global or sticky
hasSuspiciousPatterns(url) ==
  \/ HasDashedQuad(url)
  \/ HasRun(url, LowerAlpha \cup Digits, 20)
  \/ HasRepeatedChar(url)
  \/ HasRun(url, Digits, 10)
  \/ HasDashPattern(url)

\* The characters of the model's alphabet in the Cyrillic, Greek and Arabic
\* ranges and in the lookalike list: none, the alphabet being ASCII.
CyrillicChars == {}

GreekChars == {}

ArabicChars == {}

homographChars == {}

BoolCount(flags) == Cardinality({i \in 1..Len(flags) : flags[i]})

hasHomographAttack(hostname) ==
  LET hasLatin    == ~NoneIn(hostname, LowerAlpha \cup UpperAlpha)
      hasCyrillic == ~NoneIn(hostname, CyrillicChars)
      hasGreek    == ~NoneIn(hostname, GreekChars)
      hasArabic   == ~NoneIn(hostname, ArabicChars)
      scriptCount == BoolCount(<<hasLatin, hasCyrillic, hasGreek, hasArabic>>)
  IN  IF scriptCount > 1 THEN TRUE ELSE ~NoneIn(hostname, homographChars)

(***************************************************************************)
(* checkUrlSafety: the analysis of a trimmed, parseable URL.  The running  *)
(* analysis is the record of the four locals warnings, recommendations,    *)
(* riskLevel and isSafe; each check assigns as the code assigns.           *)
(***************************************************************************)
NewAnalysis ==
  [isSafe |-> TRUE, riskLevel |-> "low", warnings |-> <<>>, recommendations |-> <<>>]

\* warnings.push(w); recommendations.push(r); riskLevel = level; isSafe = false
Flag(a, w, r, level) ==
  [isSafe |-> FALSE, riskLevel |-> level,
   warnings |-> Append(a.warnings, w), recommendations |-> Append(a.recommendations, r)]

ProtocolCheck(a, protocol) ==
  IF protocol = "http:"
  THEN Flag(a, "This URL does not use HTTPS encryption",
            "Look for an HTTPS version of this site", "medium")
  ELSE IF protocol # "https:"
  THEN Flag(a, "URL uses an unsupported or potentially unsafe protocol",
            "Use HTTPS URLs when possible for better security", "medium")
  ELSE a

ShortenerCheck(a, hostname) ==
  IF isUrlShortener(hostname)
  THEN Flag(a, "This is a shortened URL - the actual destination is hidden",
            "Be cautious with shortened URLs from unknown sources", "medium")
  ELSE a

IpAddressCheck(a, hostname) ==
  IF isIpAddress(hostname)
  THEN Flag(a, "URL uses an IP address instead of a domain name",
            "Legitimate websites typically use domain names, not IP addresses", "high")
  ELSE a

TldCheck(a, hostname) ==
  IF hasSuspiciousTld(hostname)
  THEN Flag(a, "URL uses a domain extension commonly associated with suspicious sites",
            "Exercise extra caution with this domain extension", "medium")
  ELSE a

RedirectCheck(a, searchParams) ==
  IF hasRedirectParameters(searchParams)
  THEN Flag(a, "URL contains parameters that might redirect to another site",
            "Check where this URL actually leads before clicking", "medium")
  ELSE a

SubdomainCheck(a, hostname) ==
  IF hasExcessiveSubdomains(hostname)
  THEN Flag(a, "URL has an unusually complex subdomain structure",
            "Complex subdomains can be used to deceive users", "medium")
  ELSE a

FinalRiskCalculation(a, protocol) ==
  IF Len(a.warnings) = 0
  THEN [a EXCEPT !.riskLevel = "low", !.isSafe = (protocol = "https:")]
  ELSE IF Len(a.warnings) >= 3 \/ a.riskLevel = "high"
  THEN [a EXCEPT !.riskLevel = "high", !.isSafe = FALSE]
  ELSE IF Len(a.warnings) >= 1
  THEN [a EXCEPT !.riskLevel = "medium", !.isSafe = FALSE]
  ELSE a

KeywordCheck(a, trimmedUrl) ==
  IF hasSuspiciousKeywords(trimmedUrl)
  THEN Flag(a, "URL contains suspicious keywords that may indicate malicious content",
            "Be extremely cautious - this URL may be dangerous", "high")
  ELSE a

PatternCheck(a, trimmedUrl) ==
  IF hasSuspiciousPatterns(trimmedUrl)
  THEN Flag(a, "URL contains suspicious patterns commonly used in malicious links",
            "This URL structure is commonly associated with threats", "high")
  ELSE a

HomographCheck(a, hostname) ==
  IF hasHomographAttack(hostname)
  THEN Flag(a, "URL may use lookalike characters to impersonate legitimate sites",
            "Check carefully - this domain may be impersonating a trusted site", "high")
  ELSE a

\* the override without its protocol condition
SafeDomainOverrideAnyProtocol(a, hostname, protocol) ==
  IF isSafeDomain(hostname)
  THEN (IF a.riskLevel # "high" THEN [a EXCEPT !.isSafe = TRUE, !.riskLevel = "low"] ELSE a)
  ELSE a

SafeDomainOverride(a, hostname, protocol) ==
  IF isSafeDomain(hostname) /\ protocol = "https:"
  THEN (IF a.riskLevel # "high" THEN [a EXCEPT !.isSafe = TRUE, !.riskLevel = "low"] ELSE a)
  ELSE a

\* the checks over a parsed URL, in execution order; the result is the
\* running analysis after the last of them
Analyse(trimmedUrl, urlObj) ==
  LET hostname     == ToLowerCase(urlObj.hostname)
      protocol     == urlObj.protocol
      searchParams == SearchParams(urlObj.search)
      a1  == ProtocolCheck(NewAnalysis, protocol)
      a2  == ShortenerCheck(a1, hostname)
      a3  == IpAddressCheck(a2, hostname)
      a4  == TldCheck(a3, hostname)
      a5  == RedirectCheck(a4, searchParams)
      a6  == SubdomainCheck(a5, hostname)
      a7  == FinalRiskCalculation(a6, protocol)
      a8  == KeywordCheck(a7, trimmedUrl)
      a9  == PatternCheck(a8, trimmedUrl)
      a10 == HomographCheck(a9, hostname)
  IN  SafeDomainOverride(a10, hostname, protocol)

InvalidInputResult ==
  [isSafe |-> FALSE, riskLevel |-> "high", warnings |-> <<"Invalid URL provided">>,
   recommendations |-> <<"Please provide a valid URL">>]

EmptyResult ==
  [isSafe |-> FALSE, riskLevel |-> "high", warnings |-> <<"Empty URL provided">>,
   recommendations |-> <<"Please provide a valid URL">>]

UrlErrorResult ==
  [isSafe |-> FALSE, riskLevel |-> "high", warnings |-> <<"Invalid URL format">>,
   recommendations |-> <<"Please check that the URL is correctly formatted">>]

CriticalErrorResult ==
  [isSafe |-> FALSE, riskLevel |-> "high",
   warnings |-> <<"Security analysis failed - treat with caution">>,
   recommendations |-> <<"Unable to verify URL safety - proceed with extreme caution">>]

\* the analysis going on with the checks after new URL() has thrown
ComputeSafetyNoShortCircuit(trimmedUrl) == Analyse(trimmedUrl, ParseURL(trimmedUrl))

\* what a call computes for a non-empty trimmed URL when the cache does not answer
ComputeSafety(trimmedUrl) ==
  LET urlObj == ParseURL(trimmedUrl)
  IN  IF ~urlObj.ok THEN UrlErrorResult ELSE Analyse(trimmedUrl, urlObj)

(***************************************************************************)
(* The memo caches: a Map, kept as the sequence of its entries in          *)
(* insertion order.                                                        *)
(***************************************************************************)
MapHas(map, key) == \E i \in 1..Len(map) : map[i].key = key

MapGet(map, key) == map[CHOOSE i \in 1..Len(map) : map[i].key = key]

MapDelete(map, key) == SelectSeq(map, LAMBDA e : e.key # key)

\* set() of a present key replaces the value in place, of an absent key appends
MapSet(map, key, data, timestamp) ==
  LET entry == [key |-> key, data |-> data, timestamp |-> timestamp]
  IN  IF MapHas(map, key)
      THEN [i \in 1..Len(map) |-> IF map[i].key = key THEN entry ELSE map[i]]
      ELSE Append(map, entry)

\* entries.sort by timestamp (stable), then the first n of them
RECURSIVE RemoveOldest(_, _)
RemoveOldest(map, n) ==
  IF n <= 0 \/ Len(map) = 0 THEN map
  ELSE LET oldest == Min({map[i].timestamp : i \in 1..Len(map)})
           first  == Min({i \in 1..Len(map) : map[i].timestamp = oldest})
       IN  RemoveOldest(SubSeq(map, 1, first - 1) \o SubSeq(map, first + 1, Len(map)), n - 1)

SECURITY_CACHE_MAX_SIZE == 50

\* a time-to-live of 20 minutes
SECURITY_CACHE_TTL_DOUBLED == 20 * 60 * 1000

SECURITY_CACHE_TTL == 10 * 60 * 1000

CACHE_MAX_SIZE == 100

CACHE_TTL == 5 * 60 * 1000

cleanupCache(cache, time) ==
  LET live == SelectSeq(cache, LAMBDA e : ~(time - e.timestamp > CACHE_TTL))
  IN  IF Len(live) > CACHE_MAX_SIZE
      THEN RemoveOldest(live, Len(live) - CACHE_MAX_SIZE)
      ELSE live

cleanupSecurityCache(cache, time) ==
  LET live == SelectSeq(cache, LAMBDA e : ~(time - e.timestamp > SECURITY_CACHE_TTL))
  IN  IF Len(live) > SECURITY_CACHE_MAX_SIZE
      THEN RemoveOldest(live, Len(live) - SECURITY_CACHE_MAX_SIZE)
      ELSE live

(***************************************************************************)
(* Content classifier: the detectors.  A detector returns NoMatch (null)   *)
(* or Match(data); data is the parsedData record, holding exactly the keys *)
(* the object holds.  A value that may be undefined is a JavaScript value  *)
(* record, a value that is always a string is a string.                    *)
(***************************************************************************)
NoMatch == [matched |-> FALSE]

Match(data) == [matched |-> TRUE, data |-> data]

Undefined == [t |-> "undefined", v |-> ""]

Str(v) == [t |-> "string", v |-> v]

\* v || undefined, for a string v that may be empty (or null, kept as "")
OrUndefined(v) == IF v = "" THEN Undefined ELSE Str(v)

\* /^https?:\/\/[^\s/$.?#].[^\s]*$/i
MatchesUrlRegex(content) ==
  LET lower  == ToLowerCase(content)
      prefix == IF StartsWith(lower, "https://") THEN 8
                ELSE IF StartsWith(lower, "http://") THEN 7 ELSE 0
  IN  /\ prefix > 0
      /\ Len(content) >= prefix + 2
      /\ Char(content, prefix + 1) \notin (Whitespace \cup {"/", "$", ".", "?", "#"})
      /\ Char(content, prefix + 2) \notin LineTerminators
      /\ NoneIn(SubSeq(content, prefix + 3, Len(content)), Whitespace)

parseUrl(content) ==
  IF ~MatchesUrlRegex(content) THEN NoMatch
  ELSE LET url == ParseURL(content)
       IN  IF ~url.ok THEN NoMatch
           ELSE Match([url |-> content, domain |-> url.hostname,
                       protocol |-> SubSeq(url.protocol, 1, Len(url.protocol) - 1)])

\* /^[^\s@]+@[^\s@]+\.[^\s@]+$/
MatchesEmailRegex(email) ==
  LET at     == IndexOf(email, "@", 1)
      domain == SubSeq(email, at + 1, Len(email))
  IN  /\ NoneIn(email, Whitespace)
      /\ at > 1
      /\ ~Includes(domain, "@")
      /\ \E i \in 2..(Len(domain) - 1) : Char(domain, i) = "."

parseEmail(content) ==
  IF StartsWith(ToLowerCase(content), "mailto:")
  THEN LET url    == ParseURL(content)
           email  == url.pathname
           params == SearchParams(url.search)
       IN  IF ~url.ok THEN NoMatch
           ELSE IF ~MatchesEmailRegex(email) THEN NoMatch
           ELSE Match([email |-> email,
                       subject |-> OrUndefined(ParamsGet(params, "subject")),
                       body |-> OrUndefined(ParamsGet(params, "body"))])
  ELSE IF MatchesEmailRegex(content) THEN Match([email |-> content])
  ELSE NoMatch

formatPhoneNumber(phone) ==
  IF StartsWith(phone, "+") THEN phone
  ELSE IF Len(phone) = 10
  THEN "(" \o SubSeq(phone, 1, 3) \o ") " \o SubSeq(phone, 4, 6) \o "-" \o SubSeq(phone, 7, 10)
  ELSE phone

\* content.replace(/[^\d+]/g, '')
KeepDigitsAndPlus(content) ==
  RemoveChars(content, {Char(content, i) : i \in 1..Len(content)} \ (Digits \cup {"+"}))

\* /^\+\d{1,3}\d{4,14}$/, /^\d{10,15}$/, /^tel:\+?\d+$/i
MatchesPhonePatterns(phoneNumber) ==
  \/ /\ StartsWith(phoneNumber, "+")
     /\ Len(phoneNumber) - 1 \in 5..17
     /\ AllIn(Substring(phoneNumber, 1), Digits)
  \/ Len(phoneNumber) \in 10..15 /\ AllIn(phoneNumber, Digits)
  \/ /\ StartsWith(ToLowerCase(phoneNumber), "tel:")
     /\ LET rest   == Substring(phoneNumber, 4)
            digits == IF StartsWith(rest, "+") THEN Substring(rest, 1) ELSE rest
        IN  Len(digits) >= 1 /\ AllIn(digits, Digits)

parsePhone(content) ==
  LET cleaned     == KeepDigitsAndPlus(content)
      phoneNumber == IF StartsWith(ToLowerCase(content), "tel:")
                     THEN KeepDigitsAndPlus(Substring(content, 4))
                     ELSE cleaned
      isValid     == MatchesPhonePatterns(phoneNumber)
  IN  IF isValid /\ Len(phoneNumber) >= 7
      THEN Match([phone |-> phoneNumber, formatted |-> formatPhoneNumber(phoneNumber)])
      ELSE NoMatch

parseSms(content) ==
  IF StartsWith(ToLowerCase(content), "sms:")
  THEN LET url    == ParseURL(content)
           phone  == url.pathname
           params == SearchParams(url.search)
       IN  IF ~url.ok THEN NoMatch
           ELSE IF Len(phone) = 0 THEN NoMatch
           ELSE Match([phone |-> phone, message |-> OrUndefined(ParamsGet(params, "body"))])
  ELSE IF StartsWith(ToLowerCase(content), "smsto:")
  THEN LET parts == Split(Substring(content, 6), ":")
           phone == parts[1]
       IN  IF Len(phone) = 0 THEN NoMatch
           ELSE Match([phone |-> phone,
                       message |-> IF Len(parts) >= 2 THEN OrUndefined(parts[2]) ELSE Undefined])
  ELSE NoMatch

\* the params object after the loop over the ;-separated parts: the value of
\* key is that of the last part "key:value", "" standing for an absent key too
WifiParam(parts, key) ==
  LET I == {i \in 1..Len(parts) : Includes(parts[i], ":") /\ Split(parts[i], ":")[1] = key}
  IN  IF I = {} THEN "" ELSE Join(Tail(Split(parts[Max(I)], ":")), ":")

parseWifi(content) ==
  IF ~StartsWith(ToLowerCase(content), "wifi:") THEN NoMatch
  ELSE LET wifiString == Substring(content, 5)
           parts      == Split(wifiString, ";")
           ssid       == WifiParam(parts, "S")
           password   == WifiParam(parts, "P")
           security   == IF WifiParam(parts, "T") = "" THEN "WPA" ELSE WifiParam(parts, "T")
           hidden     == WifiParam(parts, "H") = "true"
       IN  IF ssid # ""
           THEN Match([ssid |-> ssid, password |-> password, security |-> security,
                       hidden |-> hidden])
           ELSE NoMatch

\* content.split(/\r?\n/)
SplitLines(content) ==
  LET raw == Split(content, "\n")
  IN  [i \in 1..Len(raw) |->
         IF i < Len(raw) /\ EndsWith(raw[i], "\r")
         THEN SubSeq(raw[i], 1, Len(raw[i]) - 1) ELSE raw[i]]

\* line.split(':')[1]
SecondPart(line) ==
  LET parts == Split(line, ":") IN IF Len(parts) >= 2 THEN Str(parts[2]) ELSE Undefined

\* the key a line assigns and the value it assigns to it; key "" for no assignment
VCardLine(line) ==
  IF StartsWith(line, "FN:") THEN [key |-> "name", value |-> Str(Substring(line, 3))]
  ELSE IF StartsWith(line, "ORG:")
  THEN [key |-> "organization", value |-> Str(Substring(line, 4))]
  ELSE IF StartsWith(line, "TEL:") \/ Includes(line, "TEL;")
  THEN [key |-> "phone", value |-> SecondPart(line)]
  ELSE IF StartsWith(line, "EMAIL:") \/ Includes(line, "EMAIL;")
  THEN [key |-> "email", value |-> SecondPart(line)]
  ELSE IF StartsWith(line, "URL:") THEN [key |-> "url", value |-> Str(Substring(line, 4))]
  ELSE [key |-> "", value |-> Undefined]

parseVCard(content) ==
  IF ~Includes(content, "BEGIN:VCARD") \/ ~Includes(content, "END:VCARD") THEN NoMatch
  ELSE LET lines  == SplitLines(content)
           assign == [i \in 1..Len(lines) |-> VCardLine(lines[i])]
           keys   == {assign[i].key : i \in 1..Len(lines)} \ {""}
           vcard  == [k \in keys |->
                        assign[Max({i \in 1..Len(lines) : assign[i].key = k})].value]
       IN  IF Cardinality(keys) > 0 THEN Match(vcard) ELSE NoMatch

(***************************************************************************)
(* Action generators.  An action is kept as its label and variant; its     *)
(* closure is not run by the classifier.                                   *)
(***************************************************************************)
Action(label) == [label |-> label, variant |-> Undefined]

OutlineAction(label) == [label |-> label, variant |-> Str("outline")]

\* data.key of an object that may lack the key
Field(data, key) == IF key \in DOMAIN data THEN data[key] ELSE Undefined

\* truthiness of a value that is a string or undefined
Truthy(value) == value.t = "string" /\ value.v # ""

generateUrlActions(data) == <<Action("Open Link"), Action("Copy URL")>>

\* [Copy Email], then push(Send Email)
generateEmailActionsPushed(data) == <<Action("Copy Email")>> \o <<Action("Send Email")>>

\* [Copy Email], then unshift(Send Email)
generateEmailActions(data) == <<Action("Send Email")>> \o <<Action("Copy Email")>>

generatePhoneActions(data) == <<Action("Call"), Action("Copy Number")>>

generateSmsActions(data) == <<Action("Send SMS"), Action("Copy Number")>>

generateWifiActions(data) == <<Action("Copy Network Name"), OutlineAction("Copy Password")>>

\* the actions with a test for the key in place of the test of its value
generateVCardActionsByKey(data) ==
  (IF "phone" \in DOMAIN data THEN <<Action("Call")>> ELSE <<>>)
  \o (IF "email" \in DOMAIN data THEN <<Action("Send Email")>> ELSE <<>>)
  \o (IF "url" \in DOMAIN data THEN <<Action("Visit Website")>> ELSE <<>>)
  \o <<OutlineAction("Copy Contact")>>

generateVCardActions(data) ==
  (IF Truthy(Field(data, "phone")) THEN <<Action("Call")>> ELSE <<>>)
  \o (IF Truthy(Field(data, "email")) THEN <<Action("Send Email")>> ELSE <<>>)
  \o (IF Truthy(Field(data, "url")) THEN <<Action("Visit Website")>> ELSE <<>>)
  \o <<OutlineAction("Copy Contact")>>

generateTextActions(content) == <<Action("Copy Text")>>

(***************************************************************************)
(* parseQrContent: the detector chain over the trimmed content.            *)
(***************************************************************************)
ParsedQrContent(type, parsedData, actions) ==
  [type |-> type, parsedData |-> parsedData, actions |-> actions]

\* the chain with the phone detector tried before the WiFi and vCard detectors
ClassifyPhoneBeforeVCard(trimmedContent) ==
  LET urlData   == parseUrl(trimmedContent)
      emailData == parseEmail(trimmedContent)
      smsData   == parseSms(trimmedContent)
      wifiData  == parseWifi(trimmedContent)
      vcardData == parseVCard(trimmedContent)
      phoneData == parsePhone(trimmedContent)
  IN  IF urlData.matched
      THEN ParsedQrContent("url", urlData.data, generateUrlActions(urlData.data))
      ELSE IF emailData.matched
      THEN ParsedQrContent("email", emailData.data, generateEmailActions(emailData.data))
      ELSE IF smsData.matched
      THEN ParsedQrContent("sms", smsData.data, generateSmsActions(smsData.data))
      ELSE IF phoneData.matched
      THEN ParsedQrContent("phone", phoneData.data, generatePhoneActions(phoneData.data))
      ELSE IF wifiData.matched
      THEN ParsedQrContent("wifi", wifiData.data, generateWifiActions(wifiData.data))
      ELSE IF vcardData.matched
      THEN ParsedQrContent("vcard", vcardData.data, generateVCardActions(vcardData.data))
      ELSE ParsedQrContent("text", [text |-> trimmedContent],
                           generateTextActions(trimmedContent))

\* the chain of early returns over the detectors' results
FirstMatch(trimmedContent, urlData, emailData, smsData, wifiData, vcardData, phoneData) ==
  IF urlData.matched
  THEN ParsedQrContent("url", urlData.data, generateUrlActions(urlData.data))
  ELSE IF emailData.matched
  THEN ParsedQrContent("email", emailData.data, generateEmailActions(emailData.data))
  ELSE IF smsData.matched
  THEN ParsedQrContent("sms", smsData.data, generateSmsActions(smsData.data))
  ELSE IF wifiData.matched
  THEN ParsedQrContent("wifi", wifiData.data, generateWifiActions(wifiData.data))
  ELSE IF vcardData.matched
  THEN ParsedQrContent("vcard", vcardData.data, generateVCardActions(vcardData.data))
  ELSE IF phoneData.matched
  THEN ParsedQrContent("phone", phoneData.data, generatePhoneActions(phoneData.data))
  ELSE ParsedQrContent("text", [text |-> trimmedContent], generateTextActions(trimmedContent))

\* what a call computes for a non-empty trimmed content when the cache does not answer
Classify(trimmedContent) ==
  FirstMatch(trimmedContent, parseUrl(trimmedContent), parseEmail(trimmedContent),
             parseSms(trimmedContent), parseWifi(trimmedContent),
             parseVCard(trimmedContent), parsePhone(trimmedContent))

\* that record with a blank for its text
BlankTextResult == ParsedQrContent("text", [text |-> " "], generateTextActions(" "))

\* the record returned for invalid and for empty input
EmptyTextResult == ParsedQrContent("text", [text |-> ""], generateTextActions(""))

\* a handler that lets the error leave the function
RethrowCriticalParsingError(content) == [raised |-> TRUE, result |-> EmptyTextResult]

\* the handler of the outer try: the text fallback over the raw content
CatchCriticalParsingError(content) ==
  LET text == IF content.t = "string" THEN content.v ELSE ""
  IN  [raised |-> FALSE,
       result |-> ParsedQrContent("text", [text |-> text], generateTextActions(text))]

(***************************************************************************)
(* detectXSS: the regular expressions of XSS_PATTERNS, all with the flags  *)
(* g and i.  A pattern is a literal word, a word followed by \s*\( or      *)
(* on\w+\s*=.                                                              *)
(***************************************************************************)
Literal(word) == [kind |-> "literal", word |-> word]

CallOf(word) == [kind |-> "call", word |-> word]

XSS_PATTERNS ==
  <<Literal("javascript:"), Literal("vbscript:"), Literal("data:"),
    [kind |-> "handler", word |-> "on"],
    Literal("<script"), Literal("</script"), Literal("<iframe"), Literal("<object"),
    Literal("<embed"), Literal("<link"), Literal("<meta"), Literal("<style"),
    Literal("</style"),
    CallOf("expression"), CallOf("url"), CallOf("import"), CallOf("eval"),
    Literal("document."), Literal("window."),
    CallOf("alert"), CallOf("confirm"), CallOf("prompt")>>

\* \w of a regular expression
WordChars == LowerAlpha \cup UpperAlpha \cup Digits \cup {"_"}

\* the number of characters of class in s from position from on, up to the
\* first that is not of class
Span(s, from, class) ==
  LET stop == {j \in from..Len(s) : Char(s, j) \notin class}
  IN  IF stop = {} THEN Len(s) - from + 1 ELSE Min(stop) - from

\* the character at position i of s, the empty string behind its end
CharAt(s, i) == IF i \in 1..Len(s) THEN Char(s, i) ELSE ""

\* the position of the last character of the match of pattern that starts at
\* position i of s, 0 when none starts there
MatchEndAt(pattern, s, i) ==
  LET after == i + Len(pattern.word)
  IN  IF after - 1 > Len(s) THEN 0
      ELSE IF SubSeq(s, i, after - 1) # pattern.word THEN 0
      ELSE IF pattern.kind = "literal" THEN after - 1
      ELSE IF pattern.kind = "call"
      THEN IF CharAt(s, after + Span(s, after, Whitespace)) = "("
           THEN after + Span(s, after, Whitespace) ELSE 0
      ELSE IF /\ Span(s, after, WordChars) > 0
              /\ CharAt(s, after + Span(s, after, WordChars)
                            + Span(s, after + Span(s, after, WordChars), Whitespace)) = "="
      THEN after + Span(s, after, WordChars)
             + Span(s, after + Span(s, after, WordChars), Whitespace)
      ELSE 0

\* pattern.test(s) of a regular expression with the flag g whose lastIndex is
\* index: the search starts at index; a match leaves lastIndex behind its
\* last character, a failure leaves 0
RegExpTest(pattern, s, index) ==
  LET starts == {i \in (index + 1)..Len(s) : MatchEndAt(pattern, s, i) # 0}
  IN  IF starts = {} THEN [found |-> FALSE, lastIndex |-> 0]
      ELSE [found |-> TRUE, lastIndex |-> MatchEndAt(pattern, s, Min(starts))]

\* XSS_PATTERNS.some(pattern => pattern.test(s)) from the n-th pattern on,
\* over the lastIndex values indexes: the answer and the values after it
RECURSIVE SomePatternTests(_, _, _)
SomePatternTests(s, indexes, n) ==
  IF n > Len(XSS_PATTERNS) THEN [found |-> FALSE, lastIndex |-> indexes]
  ELSE IF RegExpTest(XSS_PATTERNS[n], s, indexes[n]).found
  THEN [found |-> TRUE,
        lastIndex |-> [indexes EXCEPT ![n] = RegExpTest(XSS_PATTERNS[n], s, indexes[n]).lastIndex]]
  ELSE SomePatternTests(s, [indexes EXCEPT ![n] = 0], n + 1)

\* the clock reading at the start of a run; now counts from there
Epoch == 1000000000

\* Date.now() at time
DateNow(time) == Epoch + time

\* no timer is set
NoTimeout == [set |-> FALSE, due |-> 0, args |-> 0]

(***************************************************************************)
(* State.                                                                  *)
(***************************************************************************)
VARIABLES
  now,                    \* Date.now(), in milliseconds
  securityAnalysisCache,  \* the Map of checkUrlSafety
  contentParsingCache,    \* the Map of parseQrContent
  lastCall,               \* the latest call of an entry point and its outcome
  prevCall,               \* the call before it
  calls,                  \* number of calls made
  callLog,                \* the calls made so far with their outcomes, oldest first
  history,                \* the history state of useQrHistory, newest item first
  stored,                 \* the value stored under "qr-code-history"
  lastIndex,              \* the lastIndex of each regular expression of XSS_PATTERNS
  lastCallTime,           \* lastCallTime of the throttled function
  timeoutId,              \* its timeoutId: null or the timer that is set
  executions              \* the clock readings at which func has run, oldest first

\* the state of the history hook
historyVars == <<history, stored>>

\* the state of the throttled function
throttleVars == <<lastCallTime, timeoutId, executions>>

vars ==
  <<now, securityAnalysisCache, contentParsingCache, lastCall, prevCall, calls, callLog,
    historyVars, lastIndex, throttleVars>>

MaxCalls == 2

MaxTicks == 3

\* the clock advances in steps of the shorter time-to-live
TickMs == CACHE_TTL

JsString(v) == [t |-> "string", v |-> v]

JsUndefined == [t |-> "undefined", v |-> ""]

JsNull == [t |-> "object", v |-> ""]

JsNumber == [t |-> "number", v |-> "123"]

NonStrings == {JsUndefined, JsNull, JsNumber}

UrlStrings ==
  {"", "   ", "not-a-url", "http://",
   "https://example.com", "HTTPS://EXAMPLE.COM", " https://example.com\n",
   "http://example.com", "ftp://example.com", "https://bit.ly/x",
   "https://10.0.0.1", "http://192.168.1.1", "http://[2001:db8::1]",
   "https://10.0.0.1?redirect=x", "https://[::1]/?next=a",
   "https://example.tk", "https://example.tk?redirect=http://bad.com",
   "http://example.tk?url=x", "https://a.b.c.d.e.example.com",
   "https://a.b.c.bit.ly?url=x",
   "https://google.com", "https://mail.google.com", "http://google.com",
   "https://google.com?url=x", "https://google.com/malware",
   "https://google.com/a-b-c", "https://google.com/A-B-C",
   "https://example.com/?redirect=x", "https://example.com/?REDIRECT=x",
   "https://example.com/phishing", "https://example.com/1234567890"}

UrlInputs == {JsString(u) : u \in UrlStrings} \cup NonStrings

\* the number of calls of a run that passes a new URL on every call
MaxFillCalls == 51

\* the URL of the n-th of these calls
FillUrl(n) == "https://example.com/p" \o ToString(n)

\* the strings checkUrlSafety is handed
AllUrlStrings == UrlStrings \cup {FillUrl(n) : n \in 1..(MaxFillCalls + 1)}

\* url.trim(), trimmedUrl.toLowerCase() and the computation of a result over
\* the model's inputs, each evaluated once
TrimmedUrl == [v \in AllUrlStrings |-> Trim(v)]

CacheKeyOf == [v \in AllUrlStrings |-> ToLowerCase(Trim(v))]

SafetyOf == [u \in {Trim(v) : v \in AllUrlStrings} \ {""} |-> ComputeSafety(u)]

ContentStrings ==
  {"", "   \n\t   ", "Hello World", "Call 555 123 4567 now",
   "https://example.com", "  https://example.com  ", "http://u @example.com",
   "https://", "https:// invalid url", "example.com",
   "mailto:test@example.com?subject=Hello&body=World", "mailto:invalid",
   "test@example.com", "12345678901@example.com",
   "sms:+1234567890?body=Hi", "sms:", "smsto:+1234567890:Hello", "smsto:",
   "WIFI:T:WPA;S:MyNetwork;P:MyPassword;H:false;;", "WIFI:T:WEP;S:Net5551234567;P:x:y;H:true;",
   "WIFI:S:;P:1234567890;;", "WIFI:invalid",
   "BEGIN:VCARD\nVERSION:3.0\nFN:John Doe\nTEL:5551234567\nEMAIL:j@d.org\nEND:VCARD",
   "BEGIN:VCARD\r\nORG:Acme\r\nTEL;TYPE=WORK:+15551234567\r\nURL:https://acme.org\r\nEND:VCARD",
   "BEGIN:VCARD\nEND:VCARD", "BEGIN:VCARD\nTEL;\nEND:VCARD",
   "+1234567890", "tel:+1234567890", "tel:abc", "1234567890", "555-1234", "+123456",
   "WIFI:T:WPA;P:MyPassword;;", "WIFI:S:Net;P:pw;;", "WIFI:T:FOO;S:Net;P:pw;;",
   "smsto:+1234567890", "smsto:+1234567890:Hi: there", "https://a\tb.com",
   "BEGIN:VCARD\nFN:Ann\nTEL:5551234567\nEMAIL:a@b.org\nURL:https://b.org\nEND:VCARD",
   "BEGIN:VCARD\nORG:Acme\nEND:VCARD", "BEGIN:VCARD\nFN:Ann\nTEL:\nEND:VCARD"}

ContentInputs == {JsString(c) : c \in ContentStrings} \cup NonStrings

(***************************************************************************)
(* The WiFi form of the generator component: its validation and the text   *)
(* it hands to generateQrCode.                                             *)
(***************************************************************************)
WifiSsids ==
  {"MyNetwork", "  Home  ", "Cafe;5G", "joe@home.net", "",
   "abcdefghijklmnopqrstuvwxyz0123456"}

WifiPasswords == {"password1", "", "short", " pass:word "}

WifiConfigs ==
  [ssid : WifiSsids, password : WifiPasswords, security : {"WPA", "WEP", "nopass"},
   hidden : BOOLEAN]

\* the validations of handleWifiGenerate all pass
WifiConfigAccepted(wifiConfig) ==
  LET ssid     == Trim(wifiConfig.ssid)
      password == Trim(wifiConfig.password)
  IN  /\ ssid # ""
      /\ Len(ssid) <= 32
      /\ (wifiConfig.security # "nopass" => password # "")
      /\ (wifiConfig.security = "WPA" => Len(password) >= 8)

\* `WIFI:T:${security};S:${ssid};P:${password};H:${hidden};`
WifiText(wifiConfig) ==
  "WIFI:T:" \o wifiConfig.security \o ";S:" \o Trim(wifiConfig.ssid)
    \o ";P:" \o Trim(wifiConfig.password)
    \o ";H:" \o (IF wifiConfig.hidden THEN "true" ELSE "false") \o ";"

\* the validation and the text over the model's configurations, each evaluated once
WifiForm ==
  [wifiConfig \in WifiConfigs |->
     [accepted |-> WifiConfigAccepted(wifiConfig), text |-> WifiText(wifiConfig)]]

\* the number of calls of a run of the history that adds a new text on every call
MaxHistoryFillCalls == 52

\* the text of the n-th of these calls
FillText(n) == "note " \o ToString(n)

\* the strings the content classifier is handed: by the scanner, by the
\* generator, by the history
AllContentStrings ==
  ContentStrings \cup {WifiForm[wifiConfig].text : wifiConfig \in WifiConfigs}
    \cup {FillText(n) : n \in 1..(MaxHistoryFillCalls + 1)}

\* content.trim() and the classification over the model's inputs, each evaluated once
TrimmedContent == [v \in AllContentStrings |-> Trim(v)]

ClassificationOf == [c \in {Trim(v) : v \in AllContentStrings} \ {""} |-> Classify(c)]

NoCall == [op |-> "none", input |-> JsUndefined, raised |-> FALSE, hit |-> FALSE,
           fault |-> FALSE, result |-> NewAnalysis]

Init ==
  /\ now = 0
  /\ securityAnalysisCache = <<>>
  /\ contentParsingCache = <<>>
  /\ lastCall = NoCall
  /\ prevCall = NoCall
  /\ calls = 0
  /\ callLog = <<>>
  /\ history = <<>>
  /\ stored = <<>>
  /\ lastIndex = [n \in 1..Len(XSS_PATTERNS) |-> 0]
  /\ lastCallTime = 0
  /\ timeoutId = NoTimeout
  /\ executions = <<>>

Tick ==
  /\ now < MaxTicks * TickMs
  /\ now' = now + TickMs
  /\ UNCHANGED <<securityAnalysisCache, contentParsingCache, lastCall, prevCall, calls, callLog,
                 historyVars, lastIndex, throttleVars>>

\* the call returns result
Returns(op, input, hit, result) ==
  /\ lastCall' = [op |-> op, input |-> input, raised |-> FALSE, hit |-> hit,
                  fault |-> FALSE, result |-> result]
  /\ prevCall' = lastCall
  /\ calls' = calls + 1
  /\ callLog' = Append(callLog, lastCall')

\* the call ends in the handler of its outer try
Handled(op, input, outcome) ==
  /\ lastCall' = [op |-> op, input |-> input, raised |-> outcome.raised, hit |-> FALSE,
                  fault |-> TRUE, result |-> outcome.result]
  /\ prevCall' = lastCall
  /\ calls' = calls + 1
  /\ callLog' = Append(callLog, lastCall')

\* the call throws to its caller
Raises(op, input) ==
  /\ lastCall' = [op |-> op, input |-> input, raised |-> TRUE, hit |-> FALSE,
                  fault |-> TRUE, result |-> NewAnalysis]
  /\ prevCall' = lastCall
  /\ calls' = calls + 1
  /\ callLog' = Append(callLog, lastCall')

\* checkUrlSafety(url) on cache at time: the result, whether the cache
\* answered, and the cache after the call; cleanup is the outcome of
\* Math.random() < 0.2
checkUrlSafetyOn(cache, url, cleanup, time) ==
  IF url.t # "string"
  THEN [hit |-> FALSE, result |-> InvalidInputResult, cache |-> cache]
  ELSE LET trimmedUrl == TrimmedUrl[url.v]
           cacheKey   == CacheKeyOf[url.v]
       IN  IF trimmedUrl = ""
           THEN [hit |-> FALSE, result |-> EmptyResult,
                 cache |-> MapSet(cache, cacheKey, EmptyResult, time)]
           ELSE IF /\ MapHas(cache, cacheKey)
                   /\ time - MapGet(cache, cacheKey).timestamp < SECURITY_CACHE_TTL
           THEN [hit |-> TRUE, result |-> MapGet(cache, cacheKey).data, cache |-> cache]
           ELSE LET unexpired == MapDelete(cache, cacheKey)
                    cleaned   == IF cleanup THEN cleanupSecurityCache(unexpired, time)
                                 ELSE unexpired
                    result    == SafetyOf[trimmedUrl]
                IN  [hit |-> FALSE, result |-> result,
                     cache |-> MapSet(cleaned, cacheKey, result, time)]

\* checkUrlSafety(url) ends with outcome
checkUrlSafetyReturns(url, outcome) ==
  /\ securityAnalysisCache' = outcome.cache
  /\ Returns("checkUrlSafety", url, outcome.hit, outcome.result)
  /\ UNCHANGED <<now, contentParsingCache, historyVars, lastIndex, throttleVars>>

checkUrlSafety(url, cleanup) ==
  checkUrlSafetyReturns(url, checkUrlSafetyOn(securityAnalysisCache, url, cleanup, now))

\* A platform call of the try block outside the per-check handlers throws
\* after cacheKey is initialised.  The handler of the outer try refers to
\* cacheKey, a const of the try block and so out of scope in the handler:
\* evaluating it raises a ReferenceError, which leaves the function.
checkUrlSafetyFailure(url) ==
  /\ url.t = "string"
  /\ TrimmedUrl[url.v] # ""
  /\ Raises("checkUrlSafety", url)
  /\ UNCHANGED <<now, securityAnalysisCache, contentParsingCache, historyVars, lastIndex, throttleVars>>

\* parseQrContent(content) on cache at time: the result, whether the cache
\* answered, and the cache after the call; cleanup is the outcome of
\* Math.random() < 0.1
parseQrContentOn(cache, content, cleanup, time) ==
  IF content.t # "string" \/ content.v = ""
  THEN [hit |-> FALSE, result |-> EmptyTextResult, cache |-> cache]
  ELSE LET trimmedContent == TrimmedContent[content.v]
           cacheKey       == trimmedContent
       IN  IF trimmedContent = ""
           THEN [hit |-> FALSE, result |-> EmptyTextResult, cache |-> cache]
           ELSE IF /\ MapHas(cache, cacheKey)
                   /\ time - MapGet(cache, cacheKey).timestamp < CACHE_TTL
           THEN [hit |-> TRUE, result |-> MapGet(cache, cacheKey).data, cache |-> cache]
           ELSE LET unexpired == MapDelete(cache, cacheKey)
                    cleaned   == IF cleanup THEN cleanupCache(unexpired, time) ELSE unexpired
                    result    == ClassificationOf[trimmedContent]
                IN  [hit |-> FALSE, result |-> result,
                     cache |-> MapSet(cleaned, cacheKey, result, time)]

\* parseQrContent(content) ends with outcome
parseQrContentReturns(content, outcome) ==
  /\ contentParsingCache' = outcome.cache
  /\ Returns("parseQrContent", content, outcome.hit, outcome.result)
  /\ UNCHANGED <<now, securityAnalysisCache, historyVars, lastIndex, throttleVars>>

parseQrContent(content, cleanup) ==
  parseQrContentReturns(content,
                        parseQrContentOn(contentParsingCache, content, cleanup, now))

\* A platform call of the try block throws before the cache is touched: the
\* handler of the outer try builds the fallback from the raw content.
parseQrContentFailure(content) ==
  /\ Handled("parseQrContent", content, CatchCriticalParsingError(content))
  /\ UNCHANGED <<now, securityAnalysisCache, contentParsingCache, historyVars, lastIndex, throttleVars>>

ParseNext ==
  \/ /\ calls < MaxCalls
     /\ \E content \in ContentInputs : \E cleanup \in BOOLEAN : parseQrContent(content, cleanup)
  \/ Tick

ParseSpec == Init /\ [][ParseNext]_vars

ParseFaultNext ==
  \/ /\ calls < MaxCalls
     /\ \E content \in ContentInputs : \E cleanup \in BOOLEAN : parseQrContent(content, cleanup)
  \/ /\ calls < MaxCalls
     /\ \E content \in ContentInputs : parseQrContentFailure(content)
  \/ Tick

ParseFaultSpec == Init /\ [][ParseFaultNext]_vars

\* generateQrCode(text) of the generator component: the text is trimmed and
\* classified.  A url result would go on to checkUrlSafety; that branch is
\* left to the action checkUrlSafety and excluded here by the guard, every
\* other result takes the branch setSecurityAnalysis(null).  The component's
\* display state and the image are not kept.
generateQrCode(text, cleanup) ==
  IF Trim(text) = "" \/ Len(Trim(text)) > 4296
  THEN UNCHANGED vars
  ELSE /\ ClassificationOf[Trim(text)].type # "url"
       /\ parseQrContent(JsString(Trim(text)), cleanup)

\* handleWifiGenerate() over the form state wifiConfig; a text with the WIFI:
\* prefix is never a url result
handleWifiGenerate(wifiConfig, cleanup) ==
  IF ~WifiForm[wifiConfig].accepted
  THEN UNCHANGED vars
  ELSE generateQrCode(WifiForm[wifiConfig].text, cleanup)

GeneratorNext ==
  \/ /\ calls < MaxCalls
     /\ \E wifiConfig \in WifiConfigs : \E cleanup \in BOOLEAN :
          handleWifiGenerate(wifiConfig, cleanup)
  \/ Tick

GeneratorSpec == Init /\ [][GeneratorNext]_vars

SafetyNext ==
  \/ /\ calls < MaxCalls
     /\ \E url \in UrlInputs : \E cleanup \in BOOLEAN : checkUrlSafety(url, cleanup)
  \/ Tick

SafetySpec == Init /\ [][SafetyNext]_vars

FaultNext ==
  \/ /\ calls < MaxCalls
     /\ \E url \in UrlInputs : \E cleanup \in BOOLEAN : checkUrlSafety(url, cleanup)
  \/ /\ calls < MaxCalls
     /\ \E url \in UrlInputs : checkUrlSafetyFailure(url)
  \/ Tick

FaultSpec == Init /\ [][FaultNext]_vars

\* repeated calls of checkUrlSafety over a few strings, long enough for an
\* entry to expire and be replaced between two calls with the same string
MaxRepeatCalls == 3

RepeatUrls ==
  {"https://google.com/a-b-c", "https://google.com/A-B-C", "https://example.com",
   "not-a-url", "   "}

RepeatInputs == {JsString(u) : u \in RepeatUrls} \cup {JsNumber}

RepeatNext ==
  \/ /\ calls < MaxRepeatCalls
     /\ \E url \in RepeatInputs : \E cleanup \in BOOLEAN : checkUrlSafety(url, cleanup)
  \/ Tick

RepeatSpec == Init /\ [][RepeatNext]_vars

\* a run of checkUrlSafety in which every call passes a URL not passed before;
\* the calls come in one burst, the clock advances before and after it
FillNext ==
  \/ /\ calls < MaxFillCalls
     /\ \E cleanup \in BOOLEAN : checkUrlSafety(JsString(FillUrl(calls + 1)), cleanup)
  \/ /\ calls \in {0, MaxFillCalls}
     /\ Tick

FillSpec == Init /\ [][FillNext]_vars

\* both memo caches over a few inputs, long enough for an entry to be served
\* and then to expire
MaxExpiryCalls == 3

ExpiryNext ==
  \/ /\ calls < MaxExpiryCalls
     /\ \E url \in {"https://example.com", "https://google.com/a-b-c", "   "} :
          \E cleanup \in BOOLEAN : checkUrlSafety(JsString(url), cleanup)
  \/ /\ calls < MaxExpiryCalls
     /\ \E content \in {"Hello World", "  https://example.com  "} :
          \E cleanup \in BOOLEAN : parseQrContent(JsString(content), cleanup)
  \/ Tick

ExpirySpec == Init /\ [][ExpiryNext]_vars

\* detectXSS(input) ends with the answer and the lastIndex values of tested
detectXSSReturns(input, tested) ==
  /\ lastIndex' = tested.lastIndex
  /\ Returns("detectXSS", input, FALSE, tested.found)
  /\ UNCHANGED <<now, securityAnalysisCache, contentParsingCache, historyVars, throttleVars>>

detectXSS(input) ==
  IF input.t # "string"
  THEN detectXSSReturns(input, [found |-> FALSE, lastIndex |-> lastIndex])
  ELSE detectXSSReturns(input, SomePatternTests(ToLowerCase(input.v), lastIndex, 1))

XssInputs ==
  {JsString(v) : v \in {"javascript:void(0)", "JavaScript:void(0)", "hello",
                        "onclick = go", "eval (1)", "<script>alert(1)</script>",
                        "https://example.com", ""}}
    \cup {JsNumber}

XssNext ==
  \/ /\ calls < MaxCalls
     /\ \E input \in XssInputs : detectXSS(input)
  \/ Tick

XssSpec == Init /\ [][XssNext]_vars

(***************************************************************************)
(* throttle(func, interval): the wrapper it returns and the timer the      *)
(* wrapper sets.  Date.now() is DateNow(now).                              *)
(***************************************************************************)
\* the interval the function is throttled with
ThrottleInterval == 2 * TickMs

\* func.apply(null, args) at the clock reading time
Executes(args, time) == executions' = Append(executions, [time |-> time, args |-> args])

\* a call of the wrapper with args
throttled(args) ==
  /\ IF DateNow(now) - lastCallTime >= ThrottleInterval
     THEN /\ lastCallTime' = DateNow(now)
          /\ Executes(args, DateNow(now))
          /\ UNCHANGED timeoutId
     ELSE IF ~timeoutId.set
     THEN /\ timeoutId' =
               [set  |-> TRUE,
                due  |-> DateNow(now) + (ThrottleInterval - (DateNow(now) - lastCallTime)),
                args |-> args]
          /\ UNCHANGED <<lastCallTime, executions>>
     ELSE UNCHANGED throttleVars
  /\ Returns("throttled", args, FALSE, NewAnalysis)
  /\ UNCHANGED <<now, securityAnalysisCache, contentParsingCache, historyVars, lastIndex>>

\* the callback of setTimeout runs, at its time or later
timerFires ==
  /\ timeoutId.set
  /\ DateNow(now) >= timeoutId.due
  /\ lastCallTime' = DateNow(now)
  /\ Executes(timeoutId.args, DateNow(now))
  /\ timeoutId' = NoTimeout
  /\ UNCHANGED <<now, securityAnalysisCache, contentParsingCache, historyVars, lastIndex,
                 lastCall, prevCall, calls, callLog>>

MaxThrottleCalls == 3

ThrottleNext ==
  \/ /\ calls < MaxThrottleCalls
     /\ \E args \in 1..2 : throttled(args)
  \/ timerFires
  \/ Tick

ThrottleSpec == Init /\ [][ThrottleNext]_vars

(***************************************************************************)
(* The history hook useQrHistory.  An item is kept as its id, text,        *)
(* timestamp, contentType and isFavorite; imageUrl, parsedData, actions    *)
(* and securityAnalysis are carried along by the code and never read by    *)
(* it.                                                                     *)
(***************************************************************************)
MAX_HISTORY_SIZE == 100

STORAGE_HISTORY_SIZE == 50

CLEANUP_THRESHOLD == 120

\* the comparator of cleanupHistory is negative: a goes before b
SortsBefore(a, b) ==
  \/ a.isFavorite /\ ~b.isFavorite
  \/ a.isFavorite = b.isFavorite /\ a.timestamp > b.timestamp

\* [...items].sort(comparator): the sort is stable
RECURSIVE SortItems(_)
SortItems(items) ==
  IF Len(items) <= 1 THEN items
  ELSE LET sorted == SortItems(SubSeq(items, 1, Len(items) - 1))
           item   == items[Len(items)]
           ahead  == Cardinality({i \in 1..Len(sorted) : ~SortsBefore(item, sorted[i])})
       IN  SubSeq(sorted, 1, ahead) \o <<item>> \o SubSeq(sorted, ahead + 1, Len(sorted))

cleanupHistory(items) ==
  IF Len(items) <= MAX_HISTORY_SIZE THEN items
  ELSE SubSeq(SortItems(items), 1, MAX_HISTORY_SIZE)

\* array.slice(-maxSize) of an array longer than maxSize
limitArraySize(array, maxSize) ==
  IF Len(array) <= maxSize THEN array
  ELSE SubSeq(array, Len(array) - maxSize + 1, Len(array))

\* The effect that follows every change of history, over the changed history
\* items and the stored value previous: the history and the stored value
\* after it.  saved and retried are the outcomes of the two calls of
\* secureStorage.setItem.  The effect runs again on the history it sets and
\* then stores, or fails to store, what is stored already.
saveHistory(items, previous, saved, retried) ==
  LET historyToSave  == IF Len(items) > CLEANUP_THRESHOLD THEN cleanupHistory(items)
                        ELSE items
      storageHistory == limitArraySize(historyToSave, STORAGE_HISTORY_SIZE)
      trimmedHistory == limitArraySize(storageHistory, 10)
  IN  IF saved
      THEN [history |-> historyToSave, stored |-> storageHistory]
      ELSE IF Len(storageHistory) > 10 /\ retried
      THEN [history |-> trimmedHistory, stored |-> trimmedHistory]
      ELSE [history |-> historyToSave, stored |-> previous]

\* an updater that puts the new item first without looking for its text
AddedToHistoryUnchecked(prev, newItem) ==
  IF Len(prev) + 1 > 50 THEN SubSeq(<<newItem>> \o prev, 1, 50) ELSE <<newItem>> \o prev

\* the updater addToHistory hands to setHistory
AddedToHistory(prev, newItem) ==
  LET found == {i \in 1..Len(prev) : prev[i].text = newItem.text}
  IN  IF found # {}
      THEN LET existingIndex == Min(found)
           IN  <<[prev[existingIndex] EXCEPT !.timestamp = newItem.timestamp,
                                             !.contentType = newItem.contentType]>>
                 \o SubSeq(prev, 1, existingIndex - 1)
                 \o SubSeq(prev, existingIndex + 1, Len(prev))
      ELSE LET newHistory == <<newItem>> \o prev
           IN  IF Len(newHistory) > 50 THEN SubSeq(newHistory, 1, 50) ELSE newHistory

\* a call of the hook ends with the history and the stored value of saving
HistoryBecomes(op, input, saving) ==
  /\ history' = saving.history
  /\ stored' = saving.stored
  /\ Returns(op, input, FALSE, NewAnalysis)
  /\ UNCHANGED <<now, lastIndex, throttleVars>>

\* a call of the hook changes history to items and the effect follows
HistoryChanges(op, input, items, saved, retried) ==
  HistoryBecomes(op, input, saveHistory(items, stored, saved, retried))

\* the rest of addToHistory(text) once parseQrContent(text) has ended with parsed
addParsedToHistory(text, parsed, cleanupSecurity, saved, retried) ==
  /\ contentParsingCache' = parsed.cache
  /\ securityAnalysisCache' =
       IF parsed.result.type = "url"
       THEN checkUrlSafetyOn(securityAnalysisCache, JsString(parsed.result.parsedData.url),
                             cleanupSecurity, now).cache
       ELSE securityAnalysisCache
  /\ HistoryChanges("addToHistory", text,
                    AddedToHistory(history,
                                   [id          |-> ToString(DateNow(now)),
                                    text        |-> TrimmedContent[text.v],
                                    timestamp   |-> DateNow(now),
                                    contentType |-> parsed.result.type,
                                    isFavorite  |-> FALSE]),
                    saved, retried)

\* addToHistory(text): the text is classified, a url result is analysed, the
\* item is put into the history and the history is saved
addToHistory(text, cleanup, cleanupSecurity, saved, retried) ==
  IF text.t # "string" \/ TrimmedContent[text.v] = ""
  THEN UNCHANGED vars
  ELSE addParsedToHistory(text,
                          parseQrContentOn(contentParsingCache, text, cleanup, now),
                          cleanupSecurity, saved, retried)

removeFromHistory(id, saved, retried) ==
  /\ HistoryChanges("removeFromHistory", JsString(id),
                    SelectSeq(history, LAMBDA item : item.id # id), saved, retried)
  /\ UNCHANGED <<securityAnalysisCache, contentParsingCache>>

clearHistory(saved, retried) ==
  /\ HistoryChanges("clearHistory", JsUndefined, <<>>, saved, retried)
  /\ UNCHANGED <<securityAnalysisCache, contentParsingCache>>

toggleFavorite(id, saved, retried) ==
  /\ HistoryChanges("toggleFavorite", JsString(id),
                    [i \in 1..Len(history) |->
                       IF history[i].id = id
                       THEN [history[i] EXCEPT !.isFavorite = ~history[i].isFavorite]
                       ELSE history[i]],
                    saved, retried)
  /\ UNCHANGED <<securityAnalysisCache, contentParsingCache>>

MaxHistoryCalls == 3

HistoryInputs ==
  {JsString(text) : text \in {"Hello World", "https://example.com",
                              "  https://example.com  ", "+1234567890", ""}}
    \cup {JsUndefined}

\* the ids a caller can pass: those of the items shown, and one of no item
HistoryIds == {history[i].id : i \in 1..Len(history)} \cup {"0"}

\* the hook with a storage that accepts every save
HistoryNext ==
  \/ /\ calls < MaxHistoryCalls
     /\ \E text \in HistoryInputs : \E cleanup, cleanupSecurity \in BOOLEAN :
          addToHistory(text, cleanup, cleanupSecurity, TRUE, TRUE)
  \/ /\ calls < MaxHistoryCalls
     /\ \E id \in HistoryIds : removeFromHistory(id, TRUE, TRUE)
  \/ /\ calls < MaxHistoryCalls
     /\ \E id \in HistoryIds : toggleFavorite(id, TRUE, TRUE)
  \/ /\ calls < MaxHistoryCalls
     /\ clearHistory(TRUE, TRUE)
  \/ Tick

HistorySpec == Init /\ [][HistoryNext]_vars

\* the number of calls at the start of a long run among which items are
\* removed and the history is cleared
MaxHistoryEarlyCalls == 3

\* A long run of the hook: new texts are added in one burst; the newest or
\* the oldest text present is added again at the start of the run and to the
\* full history; the first item may be marked favorite; items are removed
\* and the history is cleared at the start of the run; the clock advances
\* before the burst.
HistoryFillNext ==
  \/ /\ calls < MaxHistoryFillCalls
     /\ \E cleanup \in BOOLEAN :
          addToHistory(JsString(FillText(calls + 1)), cleanup, FALSE, TRUE, TRUE)
  \/ /\ calls < MaxHistoryFillCalls
     /\ calls < MaxHistoryEarlyCalls \/ Len(history) = 50
     /\ Len(history) > 0
     /\ \E i \in {1, Len(history)} : \E cleanup \in BOOLEAN :
          addToHistory(JsString(history[i].text), cleanup, FALSE, TRUE, TRUE)
  \/ /\ calls < MaxHistoryEarlyCalls
     /\ Len(history) = 1
     /\ toggleFavorite(history[1].id, TRUE, TRUE)
  \/ /\ calls < MaxHistoryEarlyCalls
     /\ \E id \in HistoryIds : removeFromHistory(id, TRUE, TRUE)
  \/ /\ calls < MaxHistoryEarlyCalls
     /\ clearHistory(TRUE, TRUE)
  \/ /\ calls <= 1
     /\ Tick

HistoryFillSpec == Init /\ [][HistoryFillNext]_vars

\* the number of calls of such a run with a storage that may refuse a save
MaxHistoryFaultCalls == 12

HistoryFaultNext ==
  \/ /\ calls < MaxHistoryFaultCalls
     /\ \E cleanup, saved, retried \in BOOLEAN :
          addToHistory(JsString(FillText(calls + 1)), cleanup, FALSE, saved, retried)
  \/ /\ calls < MaxHistoryFaultCalls
     /\ Len(history) = 1
     /\ \E saved, retried \in BOOLEAN : toggleFavorite(history[1].id, saved, retried)
  \/ /\ calls <= 1 \/ calls = MaxHistoryFaultCalls
     /\ Tick

HistoryFaultSpec == Init /\ [][HistoryFaultNext]_vars

(***************************************************************************)
(* What the claims about checkUrlSafety speak of: the checks a URL         *)
(* triggers, read off the URL itself.                                      *)
(***************************************************************************)
MediumChecks == {"protocol", "shortener", "tld", "redirect", "subdomain"}

HighForcingChecks == {"ip", "keyword", "pattern", "homograph"}

TriggeredChecks(trimmedUrl) ==
  LET urlObj   == ParseURL(trimmedUrl)
      hostname == ToLowerCase(urlObj.hostname)
  IN  {c \in MediumChecks \cup HighForcingChecks :
         \/ c = "protocol"  /\ urlObj.protocol # "https:"
         \/ c = "shortener" /\ isUrlShortener(hostname)
         \/ c = "ip"        /\ isIpAddress(hostname)
         \/ c = "tld"       /\ hasSuspiciousTld(hostname)
         \/ c = "redirect"  /\ hasRedirectParameters(SearchParams(urlObj.search))
         \/ c = "subdomain" /\ hasExcessiveSubdomains(hostname)
         \/ c = "keyword"   /\ hasSuspiciousKeywords(trimmedUrl)
         \/ c = "pattern"   /\ hasSuspiciousPatterns(trimmedUrl)
         \/ c = "homograph" /\ hasHomographAttack(hostname)}

UrlFacts ==
  [v \in UrlStrings |->
     LET trimmedUrl == Trim(v)
         urlObj     == ParseURL(trimmedUrl)
     IN  [empty       |-> trimmedUrl = "",
          parseable   |-> trimmedUrl # "" /\ urlObj.ok,
          https       |-> urlObj.protocol = "https:",
          whitelisted |-> isSafeDomain(ToLowerCase(urlObj.hostname)),
          triggered   |-> IF trimmedUrl # "" /\ urlObj.ok THEN TriggeredChecks(trimmedUrl) ELSE {},
          fresh       |-> IF trimmedUrl = "" THEN EmptyResult ELSE ComputeSafety(trimmedUrl)]]

Rank(riskLevel) == CASE riskLevel = "low" -> 0 [] riskLevel = "medium" -> 1 [] riskLevel = "high" -> 2

\* call is a call of checkUrlSafety with a string that returned
SafetyReturned(call) == call.op = "checkUrlSafety" /\ ~call.raised /\ call.input.t = "string"

\* ... with a string that parses as a URL
SafetyAnalysed(call) == SafetyReturned(call) /\ UrlFacts[call.input.v].parseable

OverrideApplies(v) == UrlFacts[v].whitelisted /\ UrlFacts[v].https

\* C3: a parseable URL whose hostname is an IPv4 or IPv6 literal gets riskLevel
\* high and isSafe false, whatever else triggers.
C3_IpLiteralIsHigh ==
  (SafetyAnalysed(lastCall) /\ "ip" \in UrlFacts[lastCall.input.v].triggered)
    => (lastCall.result.riskLevel = "high" /\ ~lastCall.result.isSafe)

\* C4: for two parseable URLs outside the safe-domain override, the one that
\* triggers a superset of the other's checks gets at least the other's risk level.
C4_RiskNeverDeescalates ==
  (/\ SafetyAnalysed(prevCall) /\ SafetyAnalysed(lastCall)
   /\ ~OverrideApplies(prevCall.input.v) /\ ~OverrideApplies(lastCall.input.v)
   /\ UrlFacts[prevCall.input.v].triggered \subseteq UrlFacts[lastCall.input.v].triggered)
    => Rank(prevCall.result.riskLevel) <= Rank(lastCall.result.riskLevel)

\* C5: an https URL on the whitelist that triggers a keyword, pattern or
\* homograph check is high and unsafe; a result that is safe in spite of a warning
\* (the override) is one of a whitelisted https URL triggering no high-forcing check.
C5_OverrideNeverUndoesHigh ==
  SafetyAnalysed(lastCall) =>
    LET f == UrlFacts[lastCall.input.v]
    IN  /\ (OverrideApplies(lastCall.input.v)
              /\ f.triggered \cap {"keyword", "pattern", "homograph"} # {})
           => (lastCall.result.riskLevel = "high" /\ ~lastCall.result.isSafe)
        /\ (lastCall.result.isSafe /\ lastCall.result.warnings # <<>>)
           => (OverrideApplies(lastCall.input.v) /\ f.triggered \cap HighForcingChecks = {})

\* C6: without a high-forcing check and without the override, the verdict is
\* fixed by the number n of triggered medium checks: 0 low (safe iff https),
\* 1 or 2 medium and unsafe, 3 or more high and unsafe.
C6_VerdictByWarningCount ==
  (/\ SafetyAnalysed(lastCall)
   /\ UrlFacts[lastCall.input.v].triggered \cap HighForcingChecks = {}
   /\ ~OverrideApplies(lastCall.input.v))
    => LET n == Cardinality(UrlFacts[lastCall.input.v].triggered \cap MediumChecks)
           r == lastCall.result
       IN  /\ n = 0 => (r.riskLevel = "low" /\ r.isSafe = UrlFacts[lastCall.input.v].https)
           /\ n \in {1, 2} => (r.riskLevel = "medium" /\ ~r.isSafe)
           /\ n >= 3 => (r.riskLevel = "high" /\ ~r.isSafe)

\* C7: the result returned for a URL, cache hit or not, equals the result
\* computed for it from an empty cache.
C7_CacheInvisible ==
  SafetyReturned(lastCall) => lastCall.result = UrlFacts[lastCall.input.v].fresh

\* C8: checkUrlSafety never raises; a failure outside the per-check handlers
\* yields the maximal-risk fallback result.
C8_NeverRaises ==
  lastCall.op = "checkUrlSafety" =>
    /\ ~lastCall.raised
    /\ lastCall.fault => lastCall.result = CriticalErrorResult

\* C9: an empty or whitespace-only string and an unparseable string get the
\* short-circuit result: unsafe, high, exactly one warning ('Empty URL provided',
\* 'Invalid URL format') and exactly one recommendation.
C9_ShortCircuit ==
  SafetyReturned(lastCall) =>
    LET f == UrlFacts[lastCall.input.v]
        r == lastCall.result
    IN  /\ f.empty =>
             /\ r.warnings = <<"Empty URL provided">>
             /\ Len(r.recommendations) = 1 /\ r.riskLevel = "high" /\ ~r.isSafe
        /\ (~f.empty /\ ~f.parseable) =>
             /\ r.warnings = <<"Invalid URL format">>
             /\ Len(r.recommendations) = 1 /\ r.riskLevel = "high" /\ ~r.isSafe

\* a whitespace-only string, then an unparseable string
C9_Witness ==
  /\ SafetyReturned(prevCall) /\ prevCall.input.v = "   "
  /\ SafetyReturned(lastCall)
  /\ ~UrlFacts[lastCall.input.v].empty /\ ~UrlFacts[lastCall.input.v].parseable
  /\ lastCall.result.warnings = <<"Invalid URL format">>

\* C10: in every result isSafe is true exactly when riskLevel is low, and only
\* for an https URL that raised no warning or is accepted by the safe-domain override.
C10_SafeIffLow ==
  (lastCall.op = "checkUrlSafety" /\ ~lastCall.raised) =>
    LET r == lastCall.result
    IN  /\ r.isSafe <=> r.riskLevel = "low"
        /\ r.isSafe =>
             /\ lastCall.input.t = "string"
             /\ UrlFacts[lastCall.input.v].parseable
             /\ UrlFacts[lastCall.input.v].https
             /\ (r.warnings = <<>> \/ OverrideApplies(lastCall.input.v))

\* a result made safe by the override in spite of a warning
C10_Witness ==
  /\ SafetyReturned(lastCall)
  /\ lastCall.result.isSafe /\ lastCall.result.warnings # <<>>

\* the checks in execution order
CheckOrder ==
  <<"protocol", "shortener", "ip", "tld", "redirect", "subdomain", "keyword", "pattern",
    "homograph">>

\* the warning and the recommendation a triggered check pushes
CheckPair(check, protocol) ==
  CASE check = "protocol" ->
         IF protocol = "http:"
         THEN <<"This URL does not use HTTPS encryption",
                "Look for an HTTPS version of this site">>
         ELSE <<"URL uses an unsupported or potentially unsafe protocol",
                "Use HTTPS URLs when possible for better security">>
    [] check = "shortener" ->
         <<"This is a shortened URL - the actual destination is hidden",
           "Be cautious with shortened URLs from unknown sources">>
    [] check = "ip" ->
         <<"URL uses an IP address instead of a domain name",
           "Legitimate websites typically use domain names, not IP addresses">>
    [] check = "tld" ->
         <<"URL uses a domain extension commonly associated with suspicious sites",
           "Exercise extra caution with this domain extension">>
    [] check = "redirect" ->
         <<"URL contains parameters that might redirect to another site",
           "Check where this URL actually leads before clicking">>
    [] check = "subdomain" ->
         <<"URL has an unusually complex subdomain structure",
           "Complex subdomains can be used to deceive users">>
    [] check = "keyword" ->
         <<"URL contains suspicious keywords that may indicate malicious content",
           "Be extremely cautious - this URL may be dangerous">>
    [] check = "pattern" ->
         <<"URL contains suspicious patterns commonly used in malicious links",
           "This URL structure is commonly associated with threats">>
    [] check = "homograph" ->
         <<"URL may use lookalike characters to impersonate legitimate sites",
           "Check carefully - this domain may be impersonating a trusted site">>

\* for each input, the pairs of the checks it triggers, in execution order
TriggeredPairs ==
  [v \in UrlStrings |->
     LET protocol == ParseURL(Trim(v)).protocol
         checks   == SelectSeq(CheckOrder, LAMBDA c : c \in UrlFacts[v].triggered)
     IN  [i \in 1..Len(checks) |-> CheckPair(checks[i], protocol)]]

\* C11: warnings and recommendations have the same length, and for a parseable
\* URL they are the warnings and the recommendations of the checks the URL
\* triggers, one pair for each, in execution order.
C11_PairsInCheckOrder ==
  SafetyReturned(lastCall) =>
    LET result == lastCall.result
        pairs  == TriggeredPairs[lastCall.input.v]
    IN  /\ Len(result.warnings) = Len(result.recommendations)
        /\ SafetyAnalysed(lastCall) =>
             /\ result.warnings = [i \in 1..Len(pairs) |-> pairs[i][1]]
             /\ result.recommendations = [i \in 1..Len(pairs) |-> pairs[i][2]]

\* C12: any two calls of checkUrlSafety with the same string, whatever was
\* called and however much time passed in between, return the same isSafe,
\* riskLevel, warnings and recommendations.
C12_Idempotent ==
  \A i, j \in 1..Len(callLog) :
    (/\ SafetyReturned(callLog[i]) /\ SafetyReturned(callLog[j])
     /\ callLog[i].input = callLog[j].input)
      => callLog[i].result = callLog[j].result

(***************************************************************************)
(* What the claims about parseQrContent speak of.                          *)
(***************************************************************************)
ContentTypes == {"url", "email", "phone", "sms", "wifi", "vcard", "text"}

DetectorOrder == <<"url", "email", "sms", "wifi", "vcard", "phone", "text">>

\* what each detector says of a trimmed content, the text detector always matching
Detected(trimmedContent) ==
  [url   |-> parseUrl(trimmedContent),  email |-> parseEmail(trimmedContent),
   sms   |-> parseSms(trimmedContent),  wifi  |-> parseWifi(trimmedContent),
   vcard |-> parseVCard(trimmedContent), phone |-> parsePhone(trimmedContent),
   text  |-> Match([text |-> trimmedContent])]

ContentFacts ==
  [v \in ContentStrings |-> [trimmed |-> Trim(v), detected |-> Detected(Trim(v))]]

ParseCalled(call) == call.op = "parseQrContent"

\* call is a call of parseQrContent that classified a non-empty trimmed string
ParseClassified(call) ==
  /\ ParseCalled(call) /\ ~call.raised /\ ~call.fault
  /\ call.input.t = "string" /\ ContentFacts[call.input.v].trimmed # ""

\* C1: for every input, string or not, parseQrContent returns, never raising, a
\* record with type one of the seven types and with parsedData and actions.
C1_AlwaysClassifies ==
  ParseCalled(lastCall) =>
    /\ ~lastCall.raised
    /\ DOMAIN lastCall.result = {"type", "parsedData", "actions"}
    /\ lastCall.result.type \in ContentTypes

\* a non-string input, then a failure inside the try block on a string input
C1_Witness ==
  /\ ParseCalled(prevCall) /\ prevCall.input.t # "string" /\ prevCall.result.type = "text"
  /\ ParseCalled(lastCall) /\ lastCall.fault /\ lastCall.input.t = "string"
  /\ lastCall.input.v # "" /\ lastCall.result.parsedData.text = lastCall.input.v

\* C2: the result's type and parsedData are those of the first detector that
\* matches in the order URL, Email, SMS, WiFi, vCard, Phone, Text.
C2_FirstMatchWins ==
  ParseClassified(lastCall) =>
    LET d     == ContentFacts[lastCall.input.v].detected
        first == Min({i \in 1..Len(DetectorOrder) : d[DetectorOrder[i]].matched})
    IN  /\ lastCall.result.type = DetectorOrder[first]
        /\ lastCall.result.parsedData = d[DetectorOrder[first]].data

\* an address the phone detector matches too is email, then a vCard the phone
\* detector matches too is vcard
C2_Witness ==
  /\ ParseClassified(prevCall) /\ prevCall.result.type = "email"
  /\ ContentFacts[prevCall.input.v].detected.phone.matched
  /\ ParseClassified(lastCall) /\ lastCall.result.type = "vcard"
  /\ ContentFacts[lastCall.input.v].detected.phone.matched

\* C13: null, undefined, a non-string value, the empty string and a string of
\* whitespace only are classified as text with parsedData.text the empty
\* string and the single action Copy Text.
C13_BlankIsEmptyText ==
  (/\ ParseCalled(lastCall) /\ ~lastCall.fault
   /\ (lastCall.input.t # "string" \/ AllIn(lastCall.input.v, Whitespace)))
    => /\ lastCall.result.type = "text"
       /\ lastCall.result.parsedData = [text |-> ""]
       /\ Len(lastCall.result.actions) = 1
       /\ lastCall.result.actions[1].label = "Copy Text"

\* a non-string input, then a string of whitespace only
C13_Witness ==
  /\ ParseCalled(prevCall) /\ ~prevCall.fault /\ prevCall.input.t # "string"
  /\ ParseCalled(lastCall) /\ ~lastCall.fault /\ lastCall.input.t = "string"
  /\ Len(lastCall.input.v) > 0 /\ AllIn(lastCall.input.v, Whitespace)
  /\ lastCall.result.parsedData = [text |-> ""]

\* the trimmed content has the WIFI: prefix and no field S with a value
SsidMissing(trimmedContent) ==
  /\ StartsWith(ToLowerCase(trimmedContent), "wifi:")
  /\ LET fields == Split(Substring(trimmedContent, 5), ";")
     IN  \A i \in 1..Len(fields) : ~(StartsWith(fields[i], "S:") /\ Len(fields[i]) > 2)

\* C14: an input with the WIFI: prefix whose SSID is absent or empty is
\* classified as text, whatever its other fields contain.
C14_EmptySsidIsText ==
  (ParseClassified(lastCall) /\ SsidMissing(ContentFacts[lastCall.input.v].trimmed))
    => lastCall.result.type = "text"

VCardFields == {"name", "organization", "phone", "email", "url"}

\* C15: a result of type vcard holds at least one of the fields name,
\* organization, phone, email, url with a value (a field that is undefined
\* is no value).
C15_VCardHasField ==
  (ParseClassified(lastCall) /\ lastCall.result.type = "vcard")
    => \E k \in VCardFields \cap DOMAIN lastCall.result.parsedData :
         lastCall.result.parsedData[k].t = "string"

\* C16: the phone of a result of type phone is an optional leading + followed
\* by at least 7 digits.
C16_PhoneHasSevenDigits ==
  (ParseClassified(lastCall) /\ lastCall.result.type = "phone")
    => LET phone  == lastCall.result.parsedData.phone
           digits == IF StartsWith(phone, "+") THEN Substring(phone, 1) ELSE phone
       IN  Len(digits) >= 7 /\ AllIn(digits, Digits)

\* C17: for every configuration the WiFi form accepts, the text it generates
\* is classified as wifi with the configuration's ssid, password, security
\* and hidden flag.
C17_WifiRoundTrip ==
  \A wifiConfig \in WifiConfigs :
    (/\ ParseCalled(lastCall) /\ ~lastCall.fault
     /\ WifiForm[wifiConfig].accepted
     /\ lastCall.input = JsString(WifiForm[wifiConfig].text))
      => /\ lastCall.result.type = "wifi"
         /\ lastCall.result.parsedData =
              [ssid |-> Trim(wifiConfig.ssid), password |-> Trim(wifiConfig.password),
               security |-> wifiConfig.security, hidden |-> wifiConfig.hidden]

\* the value of field key in a WIFI: string: that of its first occurrence,
\* "" when the string has no such field
WifiField(trimmedContent, key) ==
  LET fields == Split(Substring(trimmedContent, 5), ";")
      I      == {i \in 1..Len(fields) : StartsWith(fields[i], key \o ":")}
  IN  IF I = {} THEN "" ELSE Substring(fields[Min(I)], Len(key) + 1)

\* C18: a result of type wifi has security one of WPA, WEP, nopass (WPA when
\* the field T is absent), a non-empty ssid, a string password, and hidden
\* true exactly when the field H is 'true'.
C18_WifiFieldsValid ==
  (ParseClassified(lastCall) /\ lastCall.result.type = "wifi")
    => LET data    == lastCall.result.parsedData
           content == ContentFacts[lastCall.input.v].trimmed
       IN  /\ data.security \in {"WPA", "WEP", "nopass"}
           /\ (WifiField(content, "T") = "" => data.security = "WPA")
           /\ data.ssid # ""
           /\ data.password \in STRING
           /\ data.hidden = (WifiField(content, "H") = "true")

\* smsto:<phone>[:<message>] read as the claim reads it: the phone up to the
\* first colon, the message everything after it
SmstoParts(trimmedContent) ==
  LET rest  == Substring(trimmedContent, 6)
      colon == IndexOf(rest, ":", 1)
  IN  [phone   |-> IF colon = 0 THEN rest ELSE SubSeq(rest, 1, colon - 1),
       message |-> IF colon = 0 THEN "" ELSE SubSeq(rest, colon + 1, Len(rest))]

\* C19: an input smsto:<phone>:<message> with a non-empty phone is classified
\* as sms with that phone and with the message text unchanged, the message
\* being undefined when none is given.
C19_SmstoKeepsMessage ==
  (/\ ParseClassified(lastCall)
   /\ StartsWith(ToLowerCase(ContentFacts[lastCall.input.v].trimmed), "smsto:")
   /\ SmstoParts(ContentFacts[lastCall.input.v].trimmed).phone # "")
    => LET parts == SmstoParts(ContentFacts[lastCall.input.v].trimmed)
       IN  /\ lastCall.result.type = "sms"
           /\ lastCall.result.parsedData.phone = parts.phone
           /\ lastCall.result.parsedData.message = OrUndefined(parts.message)

\* C20: a result of type url comes only from a trimmed input that begins with
\* http:// or https:// and contains no whitespace; its url is the trimmed
\* input, its domain the hostname and its protocol http or https.
C20_UrlOnlyForHttp ==
  (ParseClassified(lastCall) /\ lastCall.result.type = "url")
    => LET content == ContentFacts[lastCall.input.v].trimmed
           data    == lastCall.result.parsedData
       IN  /\ \/ StartsWith(ToLowerCase(content), "http://")
              \/ StartsWith(ToLowerCase(content), "https://")
           /\ NoneIn(content, Whitespace)
           /\ data.url = content
           /\ data.domain = ParseURL(content).hostname
           /\ data.protocol \in {"http", "https"}

\* the labels of a list of actions, in order
LabelsOf(actions) == [i \in 1..Len(actions) |-> actions[i].label]

\* data holds a non-empty string under key
Present(data, key) ==
  key \in DOMAIN data /\ data[key].t = "string" /\ data[key].v # ""

\* C21: the actions of a vcard result are, in this order, Call if and only if
\* phone is present, Send Email if and only if email is present, Visit Website
\* if and only if url is present, and always Copy Contact last: between 1 and
\* 4 actions.  A field is present when it holds a non-empty string.
C21_VCardActions ==
  (ParseClassified(lastCall) /\ lastCall.result.type = "vcard")
    => LET data == lastCall.result.parsedData
       IN  /\ LabelsOf(lastCall.result.actions) =
                (IF Present(data, "phone") THEN <<"Call">> ELSE <<>>)
                \o (IF Present(data, "email") THEN <<"Send Email">> ELSE <<>>)
                \o (IF Present(data, "url") THEN <<"Visit Website">> ELSE <<>>)
                \o <<"Copy Contact">>
           /\ Len(lastCall.result.actions) \in 1..4

\* a vCard with an empty TEL line gets Copy Contact alone, then a vCard with
\* phone, email and url gets all four actions
C21_Witness ==
  /\ ParseClassified(prevCall) /\ prevCall.result.type = "vcard"
  /\ "phone" \in DOMAIN prevCall.result.parsedData
  /\ LabelsOf(prevCall.result.actions) = <<"Copy Contact">>
  /\ ParseClassified(lastCall) /\ lastCall.result.type = "vcard"
  /\ Len(lastCall.result.actions) = 4

\* the action labels of each type other than vcard
FixedLabels ==
  [url   |-> <<"Open Link", "Copy URL">>,
   email |-> <<"Send Email", "Copy Email">>,
   phone |-> <<"Call", "Copy Number">>,
   sms   |-> <<"Send SMS", "Copy Number">>,
   wifi  |-> <<"Copy Network Name", "Copy Password">>,
   text  |-> <<"Copy Text">>]

\* C22: a result of a type other than vcard has the action labels of its
\* type, in order; every result of parseQrContent, the fallbacks included, has
\* at least 1 and at most 4 actions.
C22_LabelsFixedByType ==
  (ParseCalled(lastCall) /\ ~lastCall.raised)
    => /\ lastCall.result.type # "vcard"
            => LabelsOf(lastCall.result.actions) = FixedLabels[lastCall.result.type]
       /\ Len(lastCall.result.actions) \in 1..4

\* an address is classified, then the handler of the outer try answers
C22_Witness ==
  /\ ParseClassified(prevCall) /\ prevCall.result.type = "email"
  /\ ParseCalled(lastCall) /\ lastCall.fault /\ ~lastCall.raised

\* C23: after any sequence of calls the content-parsing cache holds at most
\* 100 entries and the security-analysis cache at most 50 entries.
C23_CachesBounded ==
  /\ Len(contentParsingCache) <= CACHE_MAX_SIZE
  /\ Len(securityAnalysisCache) <= SECURITY_CACHE_MAX_SIZE

\* the texts of the items of a history
TextsOf(items) == {items[i].text : i \in 1..Len(items)}

\* C24: when addToHistory drops an item marked favorite from the history to
\* keep it within a size limit, no item that is not a favorite is kept.
C24_FavoritesSurviveTrim ==
  [][(/\ lastCall'.op = "addToHistory"
      /\ \E i \in 1..Len(history) :
           history[i].isFavorite /\ history[i].text \notin TextsOf(history'))
       => \A j \in 1..Len(history') : history'[j].isFavorite]_vars

\* C27: when addToHistory leaves the history shorter than it found it, the
\* save of more than 10 items failed and the retry stored a subset: the
\* history and the stored value are then the 10 most recent items, the added
\* text first and the 9 items that were newest before it after it.
C27_RetryKeepsMostRecent ==
  [][(lastCall'.op = "addToHistory" /\ Len(history') < Len(history))
       => /\ Len(history') = 10
          /\ history'[1].text = TrimmedContent[lastCall'.input.v]
          /\ \A i \in 2..10 : history'[i] = history[i - 1]
          /\ stored' = history']_vars

\* C28: no two items of the history share an id.
C28_IdsUnique ==
  \A i, j \in 1..Len(history) : history[i].id = history[j].id => i = j

C25_DetectXssPure ==
  \A m, n \in 1..Len(callLog) :
    (/\ callLog[m].op = "detectXSS" /\ callLog[n].op = "detectXSS"
     /\ callLog[m].input = callLog[n].input)
      => callLog[m].result = callLog[n].result

\* C26: no two executions of the throttled function are less than the
\* interval apart, whatever the order of the wrapper's calls and of the
\* firing of its timer.
C26_OncePerInterval ==
  \A n \in 1..(Len(executions) - 1) :
    executions[n + 1].time - executions[n].time >= ThrottleInterval

\* the entries of cache under key
EntriesOf(cache, key) == {n \in 1..Len(cache) : cache[n].key = key}

\* A lookup of key at time now in the cache before and the cache after, with
\* the time-to-live ttl: an entry younger than ttl is served and the cache
\* left as it is, timestamp included; an entry of age ttl or more is not
\* served, and the key then holds the recomputed result with timestamp now;
\* nothing is served without an entry younger than ttl.
LookupHonoursTtl(before, after, key, ttl, call, recomputed) ==
  /\ \A n \in EntriesOf(before, key) :
       IF now - before[n].timestamp < ttl
       THEN call.hit /\ call.result = before[n].data /\ after = before
       ELSE /\ ~call.hit /\ call.result = recomputed
            /\ \A m \in EntriesOf(after, key) :
                 after[m].data = recomputed /\ after[m].timestamp = now
            /\ Cardinality(EntriesOf(after, key)) = 1
  /\ call.hit => \E n \in EntriesOf(before, key) : now - before[n].timestamp < ttl

\* C30: a cached result is served only while younger than its time-to-live,
\* 5 minutes for parseQrContent and 10 minutes for checkUrlSafety; a lookup
\* that finds an entry of that age or more replaces it by the recomputed
\* result with a fresh timestamp; a hit leaves the entry's timestamp alone.
C30_ServedWhileYoung ==
  [][/\ (/\ calls' = calls + 1 /\ lastCall'.op = "parseQrContent"
         /\ lastCall'.input.t = "string" /\ TrimmedContent[lastCall'.input.v] # "")
          => LookupHonoursTtl(contentParsingCache, contentParsingCache',
                              TrimmedContent[lastCall'.input.v], 5 * 60 * 1000, lastCall',
                              ClassificationOf[TrimmedContent[lastCall'.input.v]])
     /\ (/\ calls' = calls + 1 /\ lastCall'.op = "checkUrlSafety"
         /\ lastCall'.input.t = "string" /\ TrimmedUrl[lastCall'.input.v] # "")
          => LookupHonoursTtl(securityAnalysisCache, securityAnalysisCache',
                              CacheKeyOf[lastCall'.input.v], 10 * 60 * 1000, lastCall',
                              SafetyOf[TrimmedUrl[lastCall'.input.v]])]_vars

\* the same URL is analysed, served from the cache 5 minutes later, and
\* analysed afresh 10 minutes after the first call
C30_Witness ==
  /\ Len(callLog) = 3
  /\ \A n \in 1..3 : callLog[n].op = "checkUrlSafety" /\ callLog[n].input = callLog[1].input
  /\ ~callLog[1].hit /\ callLog[2].hit /\ ~callLog[3].hit
  /\ \E n \in 1..Len(securityAnalysisCache) : securityAnalysisCache[n].timestamp = now
  /\ now = 2 * TickMs

====
